---- MODULE Spec2Model ----
(***************************************************************************)
(* Model of the aircraft tracker worker: the update gate                   *)
(* (awaitingUpdateResponse), the per-aircraft savedUpdates queues, the     *)
(* update pass (performUpdatePass / makeAircraftWithPoints), the local     *)
(* FlightPoint table and the receipts returned by the master.              *)
(*                                                                         *)
(* Node runs one callback at a time, so every action below is the code     *)
(* that runs between two awaits of real I/O (database, HTTP).              *)
(***************************************************************************)
EXTENDS Integers, Sequences, FiniteSets, TLC

\* ------------------------------------------------------------------------
\* Bounds and inputs
\* ------------------------------------------------------------------------

\* The target vehicles given to the tracker (providedTargetVehicles), in order.
TargetVehicles == <<"a1", "a2">>

\* Number of binary update frames the live feed delivers (their `now` is 1..MaxNow).
MaxNow == 3

\* Number of performUpdatePass invocations that may be running at once.
MaxPasses == 2

\* Ledger: timestamps of the first target's rows, longest receipts array, and
\* how often one array is applied in a row.
MaxLedgerNow == 2

MaxReceipts == 2

MaxApplications == 2

\* Traces: the longest trace array of a trace document, the timestamps of the
\* documents and the offsets of their samples (absolute timestamps from 8 to
\* 10: one and two digits).
MaxSamples == 2

TraceTimestamps == {8, 9}

TraceOffsets == {0, 1}

Icaos == {TargetVehicles[i] : i \in 1..Len(TargetVehicles)}

Passes == 1..MaxPasses


\* The trace documents at hand: A, B and C.
TraceIdx == 1..3

\* The TraceObjects of the documents: <<k, i>> is sample i of document k.
SampleIds == TraceIdx \X (1..MaxSamples)

VARIABLES
    awaitingUpdateResponse, \* the gate
    isSlaveMode,            \* set once by setupFromOptions
    aircraft,               \* trackedAircraft.aircraft (its keys)
    isSetup,                \* Aircraft.isSetup of each target
    savedUpdates,           \* trackedAircraft.savedUpdates
    FlightPoints,           \* the FlightPoint table
    targetIdx,              \* selectTargetVehicles: index of the next target
    targetPc,               \* selectTargetVehicles: "select", "pass", "aborted"
    pass,                   \* the running performUpdatePass invocations
    now,                    \* `now` of the last binary update frame
    handed,                 \* history: <<icao, timestamp>> handed to updateAircraft
    queuedOutstanding,      \* history: those queued while the gate was closed
    failedFlush,            \* history: a sendAircraft of an update-triggered pass rejected
    receiptsArray,          \* ledger: the flightPointReceiptsArray at hand
    applications,           \* ledger: how often receiptsArray has been applied in a row
    registered,             \* ledger: << >> or <<key>>, the point saveToAircraft was last given
    queried                 \* ledger: << >> or <<the result of the last getUnsynchronisedPointsFor>>

ledgerVars == <<receiptsArray, applications, registered, queried>>

VARIABLES
    files,                  \* traces: the trace documents (<< >> is null, else <<document>>)
    heap,                   \* traces: element [0] of every TraceObject parsed from them
    mergeArgs,              \* traces: the documents whose objects mergeAllTraces was given
    mergedTrace,            \* traces: << >> or <<the AircraftTrace it returned>>
    mergePc                 \* traces: "idle", "read", "merged", "thrown", "nested"

mergeVars == <<files, heap, mergeArgs, mergedTrace, mergePc>>

VARIABLES
    clock,                  \* feed: Math.floor(Date.now() / 1000)
    framePc,                \* feed: binaryUpdateReceived of the frame at hand: "idle", "decoding", "distributing"
    frame,                  \* feed: << >> or <<the frame at hand>>, once decodeBinaryUpdate has returned
    decodedBinaryUpdate,    \* feed: what decodeBinaryUpdate gave for it: "none", "update", "null", "thrown"
    handlerPromise,         \* feed: the promise binaryUpdateReceived returned for it: "none", "pending", "resolved"
    unhandledRejection,     \* feed: a promise of its chain was rejected and nothing handles the rejection
    chain,                  \* feed: the promise made for each tracked aircraft while it is distributed
    lastBinaryUpdate,       \* Aircraft.lastBinaryUpdate of each target
    isActiveNow             \* Aircraft.isActiveNow of each target

feedVars == <<clock, framePc, frame, decodedBinaryUpdate, handlerPromise, unhandledRejection,
              chain, lastBinaryUpdate, isActiveNow>>

VARIABLES
    rawTrace,               \* points: << >> or <<an AircraftTrace as it was downloaded>>
    rawBinary,              \* points: << >> or <<`now` and an aircraft object of a binary update>>
    flightPoints,           \* points: the FlightPoints built of them, by feed ("trace", "binary")
    hashed                  \* points: the FlightPoint models built and hashed of those, by feed

pointVars == <<rawTrace, rawBinary, flightPoints, hashed>>

VARIABLES
    missedUpdates,          \* trackedAircraft.missedUpdates (0: the aircraft has no entry)
    shouldRunTracker,       \* the flag of runTracker's loop
    shutdownPc              \* shutdownSlave: "running", "disconnected" (from the master), "closed" (the database)

VARIABLES
    Aircraft,               \* the Aircraft table
    creating,               \* createAircraft: << >> or <<the call that awaits its save>>
    createResult,           \* createAircraft: << >> or <<what the last call returned>>
    createdBefore           \* history: the ICAOs createAircraft has returned for

tableVars == <<Aircraft, creating, createResult, createdBefore>>

VARIABLES
    segmenterInput,         \* segmenter: the FlightPoint sequence it was given
    partialFlights,         \* segmenter: << >> or <<the PartialFlights it emitted>>
    breakdown               \* segmenter: << >> or <<a partial flight breakdown of the reference traces>>

segmentVars == <<segmenterInput, partialFlights, breakdown>>

laterVars == <<missedUpdates, shouldRunTracker, shutdownPc, tableVars, segmentVars>>

\* The state of the parts modelled further below.
otherVars == <<feedVars, pointVars, laterVars>>

vars == <<awaitingUpdateResponse, isSlaveMode, aircraft, isSetup, savedUpdates,
          FlightPoints, targetIdx, targetPc, pass, now, handed,
          queuedOutstanding, failedFlush, ledgerVars, mergeVars, otherVars>>

\* No trace has been fetched.
NoTraces ==
    /\ files = [k \in TraceIdx |-> << >>]
    /\ heap = [id \in SampleIds |-> 0]
    /\ mergeArgs = << >>
    /\ mergedTrace = << >>
    /\ mergePc = "idle"

\* No response of the live feed has been received.
NoFeed ==
    /\ clock = 0
    /\ framePc = "idle"
    /\ frame = << >>
    /\ decodedBinaryUpdate = "none"
    /\ handlerPromise = "none"
    /\ unhandledRejection = FALSE
    /\ chain = [a \in Icaos |-> "none"]
    /\ lastBinaryUpdate = [a \in Icaos |-> << >>]
    /\ isActiveNow = [a \in Icaos |-> FALSE]

\* No raw sample is at hand.
NoSamples ==
    /\ rawTrace = << >>
    /\ rawBinary = << >>
    /\ flightPoints = [feed \in {"trace", "binary"} |-> << >>]
    /\ hashed = [feed \in {"trace", "binary"} |-> << >>]

\* As the worker starts.
NoLater ==
    /\ missedUpdates = [a \in Icaos |-> 0]
    /\ shouldRunTracker = TRUE
    /\ shutdownPc = "running"
    /\ Aircraft = {}
    /\ creating = << >>
    /\ createResult = << >>
    /\ createdBefore = {}
    /\ segmenterInput = << >>
    /\ partialFlights = << >>
    /\ breakdown = << >>

\* Nothing of the parts modelled further below has happened.
NoOther ==
    /\ NoFeed
    /\ NoSamples
    /\ NoLater

\* ------------------------------------------------------------------------
\* Flight points, the FlightPoint table
\* ------------------------------------------------------------------------

\* A number held by a flight point is << >> (null), <<n>> or NaN.
Null == << >>

\* NaN: a number that equals neither null nor any <<n>>.
NaN == <<0, 0>>

toString(x) == IF x = NaN THEN "NaN" ELSE ToString(x[1])

\* The values a raw sample holds in one place: undefined (no such key), null, a
\* number or a string.
undefined == [kind |-> "undefined", value |-> 0, string |-> ""]

null == [kind |-> "null", value |-> 0, string |-> ""]

Number(n) == [kind |-> "number", value |-> n, string |-> ""]

String(s) == [kind |-> "string", value |-> 0, string |-> s]

\* The altitude of an aircraft on the ground.
ground == String("ground")

\* parseInt(x) and parseFloat(x) for such a value (the numbers are integers, the
\* strings are not numerals).
parseInt(x) == IF x.kind = "number" THEN <<x.value>> ELSE NaN

parseFloat(x) == IF x.kind = "number" THEN <<x.value>> ELSE NaN

\* A value copied as it is: null and undefined stay what they are (both are
\* stored as NULL), a number stays that number.
copied(x) == IF x.kind = "number" THEN <<x.value>> ELSE Null

\* x || null for the tag of a data source (a string, if there is one).
orNull(x) == IF x.kind = "string" /\ x.string # "" THEN <<x.string>> ELSE Null

greaterThanZero(x) == x # Null /\ x # NaN /\ x[1] > 0

lessThanZero(x) == x # Null /\ x # NaN /\ x[1] < 0

\* altitude of flightPointsFromTrace that takes an absent altitude for the ground.
traceAltitude_zero(traceObject) ==
    IF traceObject[3] # null /\ traceObject[3] # ground THEN parseInt(traceObject[3]) ELSE <<0>>

\* let altitude = ... of flightPointsFromTrace.
traceAltitude(traceObject) ==
    IF traceObject[3] # null
    THEN (IF traceObject[3] = ground THEN <<0>> ELSE parseInt(traceObject[3]))
    ELSE Null

\* let altitude = ... of flightPointFromBinary.
binaryAltitude(binaryAircraftObject) ==
    IF binaryAircraftObject.alt_baro # undefined
    THEN (IF binaryAircraftObject.alt_baro = ground THEN <<0>>
          ELSE parseInt(binaryAircraftObject.alt_baro))
    ELSE Null

\* The FlightPoint of one traceObject of aircraftTrace (the body of the loop of
\* flightPointsFromTrace); its `time` is left out.
flightPointFromTraceObject(aircraftTrace, traceObject) ==
    LET absoluteTimestamp == traceObject[0].value + aircraftTrace.timestamp
        altitude == traceAltitude(traceObject)
        altitudeRate == IF traceObject[7] # null THEN parseInt(traceObject[7]) ELSE Null
        dataSource == orNull(traceObject[9])
    IN [timestamp |-> absoluteTimestamp,
        timestampMillis |-> absoluteTimestamp * 1000,
        latitude |-> parseFloat(traceObject[1]),
        longitude |-> parseFloat(traceObject[2]),
        altitude |-> altitude,
        groundSpeed |-> copied(traceObject[4]),
        rotation |-> copied(traceObject[5]),
        verticalRate |-> altitudeRate,
        dataSource |-> dataSource,
        position |-> <<traceObject[1], traceObject[2]>>,
        isAscending |-> IF altitudeRate # Null THEN greaterThanZero(altitudeRate) ELSE FALSE,
        isDescending |-> IF altitudeRate # Null THEN lessThanZero(altitudeRate) ELSE FALSE,
        isOnGround |-> (traceObject[3] = ground)]

\* flightPointsFromTrace(aircraftTrace): one FlightPoint for every traceObject.
flightPointsFromTrace(aircraftTrace) ==
    [i \in 1..Len(aircraftTrace.trace) |->
        flightPointFromTraceObject(aircraftTrace, aircraftTrace.trace[i])]

\* flightPointFromBinary(updateAt, binaryAircraftObject); its `time` is left out.
flightPointFromBinary(updateAt, binaryAircraftObject) ==
    LET altitude == binaryAltitude(binaryAircraftObject)
        altitudeRate == IF binaryAircraftObject.baro_rate # undefined
                        THEN parseInt(binaryAircraftObject.baro_rate) ELSE Null
        groundSpeed == IF binaryAircraftObject.gs # undefined
                       THEN parseFloat(binaryAircraftObject.gs) ELSE Null
        rotation == IF binaryAircraftObject.track # undefined
                    THEN parseFloat(binaryAircraftObject.track) ELSE Null
        dataSource == orNull(binaryAircraftObject.type)
    IN [timestamp |-> updateAt,
        timestampMillis |-> updateAt * 1000,
        latitude |-> parseFloat(binaryAircraftObject.lat),
        longitude |-> parseFloat(binaryAircraftObject.lon),
        altitude |-> altitude,
        groundSpeed |-> groundSpeed,
        rotation |-> rotation,
        verticalRate |-> altitudeRate,
        dataSource |-> dataSource,
        position |-> <<binaryAircraftObject.lat, binaryAircraftObject.lon>>,
        isAscending |-> IF altitudeRate # Null THEN greaterThanZero(altitudeRate) ELSE FALSE,
        isDescending |-> IF altitudeRate # Null THEN lessThanZero(altitudeRate) ELSE FALSE,
        isOnGround |-> (binaryAircraftObject.alt_baro = ground)]

\* A traceObject: an array whose elements [0], [1], [2], [3], [4], [7] and [9]
\* are as given (time offset, latitude, longitude, altitude, ground speed,
\* altitude rate and the tag of the data source); the others are null.
TraceObject(offset, lat, lon, alt, gs, rate, source) ==
    [i \in 0..9 |-> CASE i = 0 -> Number(offset) [] i = 1 -> lat [] i = 2 -> lon
                      [] i = 3 -> alt [] i = 4 -> gs [] i = 7 -> rate [] i = 9 -> source
                      [] OTHER -> null]

\* The object every binary update of the tracker model holds for a target: a
\* position fix and a barometric altitude, nothing else.
LiveAircraftObject ==
    [lat |-> Number(1), lon |-> Number(2), alt_baro |-> Number(100), baro_rate |-> undefined,
     gs |-> undefined, track |-> undefined, type |-> undefined]

\* The merged historical trace of a target in the tracker model: one sample
\* with a position fix and an altitude, older than every live frame.
HistoricalTrace ==
    [timestamp |-> 0,
     trace |-> <<TraceObject(0, Number(1), Number(2), Number(100), null, null, null)>>]

positionForHash(fp) ==
    IF fp.latitude # Null /\ fp.longitude # Null
    THEN toString(fp.latitude) \o toString(fp.longitude) ELSE "0"

altitudeForHash(fp) ==
    IF fp.altitude # Null THEN toString(fp.altitude) ELSE "na"

\* A hash that is taken of the data source of the point as well.
flightPointHash_source(icao, fp) ==
    icao \o ToString(fp.timestamp) \o positionForHash(fp) \o altitudeForHash(fp)
         \o (IF fp.dataSource = Null THEN "" ELSE fp.dataSource[1])

\* The blake2b digest of icao + timestamp + position + altitude. The digest is
\* taken to be collision free: the hash is represented by the hashed string.
flightPointHash(icao, fp) ==
    icao \o ToString(fp.timestamp) \o positionForHash(fp) \o altitudeForHash(fp)

\* One row of the FlightPoint table (synchronised defaults to false).
newFlightPointModel(icao, fp) ==
    [AircraftIcao |-> icao, flightPointHash |-> flightPointHash(icao, fp),
     timestamp |-> fp.timestamp, synchronised |-> FALSE]

\* flightPoint.save() as an upsert: the new row replaces the one with its hash.
save_upsert(table, row) ==
    {r \in table : r.flightPointHash # row.flightPointHash} \cup {row}

\* flightPoint.save(): an INSERT, rejected when the unique flightPointHash is
\* already in the table (the rejection is swallowed by Promise.allSettled).
save(table, row) ==
    IF \E r \in table : r.flightPointHash = row.flightPointHash
    THEN table ELSE table \cup {row}

RECURSIVE saveToAircraft(_, _, _)
saveToAircraft(table, icao, fps) ==
    IF fps = << >> THEN table
    ELSE saveToAircraft(save(table, newFlightPointModel(icao, Head(fps))), icao, Tail(fps))

\* ORDER BY timestamp DESC.
RECURSIVE orderByTimestamp_desc(_)
orderByTimestamp_desc(rows) ==
    IF rows = {} THEN << >>
    ELSE LET first == CHOOSE r \in rows : \A q \in rows : r.timestamp >= q.timestamp
         IN <<first>> \o orderByTimestamp_desc(rows \ {first})

RECURSIVE orderByTimestamp(_)
orderByTimestamp(rows) ==
    IF rows = {} THEN << >>
    ELSE LET first == CHOOSE r \in rows : \A q \in rows : r.timestamp <= q.timestamp
         IN <<first>> \o orderByTimestamp(rows \ {first})

\* getUnsynchronisedPointsFor without the `synchronised: false` condition.
getUnsynchronisedPointsFor_all(table, icao) ==
    [icao |-> icao,
     FlightPoints |-> orderByTimestamp({r \in table : r.AircraftIcao = icao})]

\* The Aircraft with its FlightPoints where synchronised = false, by timestamp.
getUnsynchronisedPointsFor(table, icao) ==
    [icao |-> icao,
     FlightPoints |-> orderByTimestamp({r \in table : r.AircraftIcao = icao /\ ~r.synchronised})]

\* updateFlightPointReceipts whose WHERE clause has lost the flightPointHash condition.
updateFlightPointReceipts_icaoOnly(table, receipts) ==
    {IF \E i \in 1..Len(receipts) : receipts[i].AircraftIcao = r.AircraftIcao
     THEN [r EXCEPT !.synchronised = TRUE] ELSE r : r \in table}

\* updateFlightPointReceipts that flips the flag of the rows it matches.
updateFlightPointReceipts_toggle(table, receipts) ==
    {IF \E i \in 1..Len(receipts) :
            /\ receipts[i].AircraftIcao = r.AircraftIcao
            /\ receipts[i].flightPointHash = r.flightPointHash
     THEN [r EXCEPT !.synchronised = ~@] ELSE r : r \in table}

\* updateFlightPointReceipts whose WHERE clause has lost the AircraftIcao condition.
updateFlightPointReceipts_hashOnly(table, receipts) ==
    {IF \E i \in 1..Len(receipts) : receipts[i].flightPointHash = r.flightPointHash
     THEN [r EXCEPT !.synchronised = TRUE] ELSE r : r \in table}

\* UPDATE FlightPoint SET synchronised = true WHERE AircraftIcao = .. AND flightPointHash = ..
\* for every receipt of the array.
updateFlightPointReceipts(table, receipts) ==
    {IF \E i \in 1..Len(receipts) :
            /\ receipts[i].AircraftIcao = r.AircraftIcao
            /\ receipts[i].flightPointHash = r.flightPointHash
     THEN [r EXCEPT !.synchronised = TRUE] ELSE r : r \in table}

\* ------------------------------------------------------------------------
\* trackedAircraft and the savedUpdates queue
\* ------------------------------------------------------------------------

\* Array.prototype.indexOf: 1-based position of the first equal element, -1 if none.
\* Queue entries are distinct objects; here they are distinct values as well,
\* because every frame has its own `now`.
indexOf(arr, x) ==
    IF \E i \in 1..Len(arr) : arr[i] = x
    THEN CHOOSE i \in 1..Len(arr) : arr[i] = x /\ \A j \in 1..(i - 1) : arr[j] # x
    ELSE -1

\* arr.splice(idx, 1) for a position as indexOf returns it (-1 removes the last element).
splice(arr, idx) ==
    LET at == IF idx = -1 THEN Len(arr) ELSE idx
    IN [i \in 1..(Len(arr) - (IF Len(arr) > 0 THEN 1 ELSE 0)) |->
            IF i < at THEN arr[i] ELSE arr[i + 1]]

\* The loop of makeAircraftWithPoints that removes the saved updates:
\*   for(let savedUpdate of savedUpdatesToSubmit) { queue.splice(queue.indexOf(savedUpdate), 1); }
\* savedUpdatesToSubmit and the queue are the same array, so the iterator (position i)
\* walks the array the loop body is shortening.
RECURSIVE removeSavedUpdates(_, _)
removeSavedUpdates(arr, i) ==
    IF i > Len(arr) THEN arr
    ELSE removeSavedUpdates(splice(arr, indexOf(arr, arr[i])), i + 1)

\* getAircraftWithQueuedUpdatesExcl that does not skip the excluded aircraft.
getAircraftWithQueuedUpdatesExcl_all(excluding) ==
    SelectSeq(TargetVehicles, LAMBDA a : a \in aircraft /\ Len(savedUpdates[a]) > 0)

\* trackedAircraft.getAircraftWithQueuedUpdatesExcl: the tracked aircraft, in the
\* order they were added, that are not excluded and have queued updates.
getAircraftWithQueuedUpdatesExcl(excluding) ==
    SelectSeq(TargetVehicles,
              LAMBDA a : a \in aircraft /\ a \notin excluding /\ Len(savedUpdates[a]) > 0)

\* ------------------------------------------------------------------------
\* performUpdatePass invocations
\* ------------------------------------------------------------------------

IdlePass ==
    [pc |-> "idle", trigger |-> "none", primary |-> "none", built |-> << >>,
     aircraftArray |-> << >>, secondary |-> << >>, receipts |-> << >>]

Running == {p \in Passes : pass[p].pc # "idle"}

\* The slot a new invocation takes.
FreePass == CHOOSE p \in Passes : pass[p].pc = "idle" /\ \A q \in Passes : q < p => pass[q].pc # "idle"

\* performUpdatePass up to its first await: close the gate and start saving
\* builtFlightPoints to the primary aircraft (requireAircraftSetup is false at
\* both call sites, so the primary is always prepared).
performUpdatePass(p, icao, builtFlightPoints, trigger) ==
    /\ awaitingUpdateResponse' = TRUE
    /\ pass' = [pass EXCEPT ![p] = [IdlePass EXCEPT !.pc = "savePrimary", !.trigger = trigger,
                                                     !.primary = icao, !.built = builtFlightPoints]]

\* performUpdatePass returns to its caller; beginTrackingAircraft then marks the
\* aircraft set up and selectTargetVehicles goes on to the next target.
passReturns(p) ==
    /\ pass' = [pass EXCEPT ![p] = IdlePass]
    /\ IF pass[p].trigger = "setup"
       THEN /\ isSetup' = [isSetup EXCEPT ![pass[p].primary] = TRUE]
            /\ targetIdx' = targetIdx + 1
            /\ targetPc' = "select"
       ELSE UNCHANGED <<isSetup, targetIdx, targetPc>>

\* performUpdatePass from "Ready to perform update": in slave mode the batch goes
\* to master.sendAircraft, otherwise the pass returns.
submit(p, aircraftArray, secondary) ==
    IF isSlaveMode
    THEN /\ pass' = [pass EXCEPT ![p].pc = "inflight", ![p].aircraftArray = aircraftArray,
                                 ![p].secondary = secondary]
         /\ UNCHANGED <<isSetup, targetIdx, targetPc>>
    ELSE passReturns(p)

\* ------------------------------------------------------------------------
\* Actions
\* ------------------------------------------------------------------------

Init ==
    /\ awaitingUpdateResponse = FALSE
    /\ isSlaveMode \in BOOLEAN
    /\ aircraft = {}
    /\ isSetup = [a \in Icaos |-> FALSE]
    /\ savedUpdates = [a \in Icaos |-> << >>]
    /\ FlightPoints = {}
    /\ targetIdx = 1
    /\ targetPc = "select"
    /\ pass = [p \in Passes |-> IdlePass]
    /\ now = 0
    /\ handed = {}
    /\ queuedOutstanding = {}
    /\ failedFlush = FALSE
    /\ receiptsArray = << >>
    /\ applications = 0
    /\ registered = << >>
    /\ queried = << >>
    /\ NoTraces
    /\ NoOther

\* selectTargetVehicles calls beginTrackingAircraft for the next target; hasTrace
\* tells whether a trace was downloaded (mergedTrace !== null).
beginTrackingAircraft(hasTrace) ==
    /\ targetPc = "select"
    /\ targetIdx <= Len(TargetVehicles)
    /\ LET icao == TargetVehicles[targetIdx] IN
        /\ aircraft' = aircraft \cup {icao}
        /\ savedUpdates' = [savedUpdates EXCEPT ![icao] = << >>]
        /\ IF hasTrace
           THEN /\ \E p \in Passes : pass[p].pc = "idle"
                /\ isSetup' = [isSetup EXCEPT ![icao] = FALSE]
                /\ performUpdatePass(FreePass, icao, flightPointsFromTrace(HistoricalTrace), "setup")
                /\ targetPc' = "pass"
                /\ UNCHANGED targetIdx
           ELSE /\ isSetup' = [isSetup EXCEPT ![icao] = TRUE]
                /\ targetIdx' = targetIdx + 1
                /\ UNCHANGED <<awaitingUpdateResponse, pass, targetPc>>
    /\ UNCHANGED <<otherVars, mergeVars, ledgerVars, isSlaveMode, FlightPoints, now, handed, queuedOutstanding, failedFlush>>

\* savesForLater that does not look at the gate.
savesForLater_setupOnly(icao) ==
    isSetup[icao] = FALSE

\* updateAircraft saves the point for later instead of starting an update pass.
savesForLater(icao) ==
    isSetup[icao] = FALSE \/ awaitingUpdateResponse = TRUE

\* binaryUpdateReceived hands the point of the next frame to updateAircraft.
updateAircraft(icao) ==
    /\ icao \in aircraft
    /\ now < MaxNow
    /\ now' = now + 1
    /\ handed' = handed \cup {<<icao, now + 1>>}
    /\ LET flightPoint == flightPointFromBinary(now + 1, LiveAircraftObject) IN
        IF savesForLater(icao)
        THEN /\ savedUpdates' = [savedUpdates EXCEPT ![icao] = Append(@, flightPoint)]
             /\ queuedOutstanding' = IF awaitingUpdateResponse
                                     THEN queuedOutstanding \cup {<<icao, now + 1>>}
                                     ELSE queuedOutstanding
             /\ UNCHANGED <<awaitingUpdateResponse, pass>>
        ELSE /\ \E p \in Passes : pass[p].pc = "idle"
             /\ performUpdatePass(FreePass, icao, <<flightPoint>>, "update")
             /\ UNCHANGED <<savedUpdates, queuedOutstanding>>
    /\ UNCHANGED <<otherVars, mergeVars, ledgerVars, isSlaveMode, aircraft, isSetup, FlightPoints, targetIdx, targetPc, failedFlush>>

\* builtFlightPoints.saveToAircraft resolves; makeAircraftWithPoints(primary) runs
\* up to its next database await: it builds models of the queued updates and
\* starts saving them. With an empty queue there is nothing to save or to
\* remove, and it runs on to the query of the unsynchronised points.
primarySaved(p) ==
    /\ pass[p].pc = "savePrimary"
    /\ FlightPoints' = saveToAircraft(FlightPoints, pass[p].primary, pass[p].built)
    /\ pass' = [pass EXCEPT ![p].pc = IF savedUpdates[pass[p].primary] = << >>
                                      THEN "queryPrimary" ELSE "saveQueued",
                            ![p].built = savedUpdates[pass[p].primary]]
    /\ UNCHANGED <<otherVars, mergeVars, ledgerVars, awaitingUpdateResponse, isSlaveMode, aircraft, isSetup, savedUpdates,
                   targetIdx, targetPc, now, handed, queuedOutstanding, failedFlush>>

\* makeAircraftWithPoints(primary): the save of the queued updates resolves, the
\* saved updates are removed from the queue and the unsynchronised points are queried.
primaryQueueSaved(p) ==
    /\ pass[p].pc = "saveQueued"
    /\ FlightPoints' = saveToAircraft(FlightPoints, pass[p].primary, pass[p].built)
    /\ savedUpdates' = [savedUpdates EXCEPT ![pass[p].primary] = removeSavedUpdates(@, 1)]
    /\ pass' = [pass EXCEPT ![p].pc = "queryPrimary", ![p].built = << >>]
    /\ UNCHANGED <<otherVars, mergeVars, ledgerVars, awaitingUpdateResponse, isSlaveMode, aircraft, isSetup,
                   targetIdx, targetPc, now, handed, queuedOutstanding, failedFlush>>

\* The query of the primary resolves; the secondary aircraft are collected and
\* makeAircraftWithPoints is started for each; with none, the batch is submitted.
primaryQueried(p) ==
    /\ pass[p].pc = "queryPrimary"
    /\ LET aircraftArray == <<getUnsynchronisedPointsFor(FlightPoints, pass[p].primary)>>
           secondaryAircraft == getAircraftWithQueuedUpdatesExcl({pass[p].primary})
           secondary == [i \in 1..Len(secondaryAircraft) |->
                            [icao |-> secondaryAircraft[i], pc |-> "save",
                             built |-> savedUpdates[secondaryAircraft[i]],
                             withPoints |-> [icao |-> secondaryAircraft[i], FlightPoints |-> << >>]]]
       IN IF Len(secondaryAircraft) > 0
          THEN /\ pass' = [pass EXCEPT ![p].pc = "secondary", ![p].aircraftArray = aircraftArray,
                                       ![p].secondary = secondary]
               /\ UNCHANGED <<isSetup, targetIdx, targetPc>>
          ELSE submit(p, aircraftArray, << >>)
    /\ UNCHANGED <<otherVars, mergeVars, ledgerVars, awaitingUpdateResponse, isSlaveMode, aircraft, savedUpdates, FlightPoints,
                   now, handed, queuedOutstanding, failedFlush>>

\* makeAircraftWithPoints(secondary i): save resolved, queue shortened, query started.
secondaryQueueSaved(p, i) ==
    /\ pass[p].pc = "secondary"
    /\ i \in 1..Len(pass[p].secondary)
    /\ pass[p].secondary[i].pc = "save"
    /\ LET icao == pass[p].secondary[i].icao IN
        /\ FlightPoints' = saveToAircraft(FlightPoints, icao, pass[p].secondary[i].built)
        /\ savedUpdates' = [savedUpdates EXCEPT ![icao] = removeSavedUpdates(@, 1)]
    /\ pass' = [pass EXCEPT ![p].secondary[i].pc = "query", ![p].secondary[i].built = << >>]
    /\ UNCHANGED <<otherVars, mergeVars, ledgerVars, awaitingUpdateResponse, isSlaveMode, aircraft, isSetup,
                   targetIdx, targetPc, now, handed, queuedOutstanding, failedFlush>>

\* makeAircraftWithPoints(secondary i) returns; when it is the last one,
\* Promise.allSettled resolves and the batch is submitted.
secondaryQueried(p, i) ==
    /\ pass[p].pc = "secondary"
    /\ i \in 1..Len(pass[p].secondary)
    /\ pass[p].secondary[i].pc = "query"
    /\ LET secondary == [pass[p].secondary EXCEPT
                            ![i].pc = "done",
                            ![i].withPoints = getUnsynchronisedPointsFor(FlightPoints, @.icao)]
           allSecondaryWithPoints == [j \in 1..Len(secondary) |-> secondary[j].withPoints]
       IN IF \A j \in 1..Len(secondary) : secondary[j].pc = "done"
          THEN submit(p, pass[p].aircraftArray \o allSecondaryWithPoints, secondary)
          ELSE /\ pass' = [pass EXCEPT ![p].secondary = secondary]
               /\ UNCHANGED <<isSetup, targetIdx, targetPc>>
    /\ UNCHANGED <<otherVars, mergeVars, ledgerVars, awaitingUpdateResponse, isSlaveMode, aircraft, savedUpdates, FlightPoints,
                   now, handed, queuedOutstanding, failedFlush>>

\* The receipts the master returns for one aircraft of the batch: one per point
\* ("all") or only for the first point ("first").
receiptsFor(withPoints, mode) ==
    [i \in 1..(IF mode = "all" \/ Len(withPoints.FlightPoints) = 0
               THEN Len(withPoints.FlightPoints) ELSE 1) |->
        [AircraftIcao |-> withPoints.FlightPoints[i].AircraftIcao,
         flightPointHash |-> withPoints.FlightPoints[i].flightPointHash,
         synchronised |-> TRUE]]

\* master.sendAircraft resolves with the receipts; handleAircraftSubmissionReceipts
\* starts updateFlightPointReceipts for every aircraft of the object.
sendAircraftResolved(p, mode) ==
    /\ pass[p].pc = "inflight"
    /\ pass' = [pass EXCEPT ![p].pc = "receipts",
                            ![p].receipts = [i \in 1..Len(pass[p].aircraftArray) |->
                                                receiptsFor(pass[p].aircraftArray[i], mode)]]
    /\ UNCHANGED <<otherVars, mergeVars, ledgerVars, awaitingUpdateResponse, isSlaveMode, aircraft, isSetup, savedUpdates,
                   FlightPoints, targetIdx, targetPc, now, handed, queuedOutstanding, failedFlush>>

\* master.sendAircraft rejects: performUpdatePass rejects without touching the
\* gate; a rejection during target selection ends selectTargetVehicles.
sendAircraftRejected(p) ==
    /\ pass[p].pc = "inflight"
    /\ pass' = [pass EXCEPT ![p] = IdlePass]
    /\ targetPc' = IF pass[p].trigger = "setup" THEN "aborted" ELSE targetPc
    /\ failedFlush' = (failedFlush \/ pass[p].trigger = "update")
    /\ UNCHANGED <<otherVars, mergeVars, ledgerVars, awaitingUpdateResponse, isSlaveMode, aircraft, isSetup, savedUpdates,
                   FlightPoints, targetIdx, now, handed, queuedOutstanding>>

RECURSIVE applyAll(_, _)
applyAll(table, receiptsArrays) ==
    IF receiptsArrays = << >> THEN table
    ELSE applyAll(updateFlightPointReceipts(table, Head(receiptsArrays)), Tail(receiptsArrays))

\* handleAircraftSubmissionReceipts: the updates of all receipts arrays are done.
receiptsApplied(p) ==
    /\ pass[p].pc = "receipts"
    /\ FlightPoints' = applyAll(FlightPoints, pass[p].receipts)
    /\ pass' = [pass EXCEPT ![p].pc = "applied"]
    /\ UNCHANGED <<otherVars, mergeVars, ledgerVars, awaitingUpdateResponse, isSlaveMode, aircraft, isSetup, savedUpdates,
                   targetIdx, targetPc, now, handed, queuedOutstanding, failedFlush>>

\* handleAircraftSubmissionReceipts that does not await the updates before it
\* opens the gate.
handleAircraftSubmissionReceipts_early(p) ==
    /\ pass[p].pc = "receipts"
    /\ awaitingUpdateResponse' = FALSE
    /\ passReturns(p)
    /\ UNCHANGED <<otherVars, mergeVars, ledgerVars, isSlaveMode, aircraft, savedUpdates, FlightPoints, now, handed,
                   queuedOutstanding, failedFlush>>

\* handleAircraftSubmissionReceipts after its await: the gate opens and
\* performUpdatePass returns.
handleAircraftSubmissionReceipts(p) ==
    /\ pass[p].pc = "applied"
    /\ awaitingUpdateResponse' = FALSE
    /\ passReturns(p)
    /\ UNCHANGED <<otherVars, mergeVars, ledgerVars, isSlaveMode, aircraft, savedUpdates, FlightPoints, now, handed,
                   queuedOutstanding, failedFlush>>

Next ==
    \/ \E hasTrace \in BOOLEAN : beginTrackingAircraft(hasTrace)
    \/ \E icao \in Icaos : updateAircraft(icao)
    \/ \E p \in Passes : primarySaved(p)
    \/ \E p \in Passes : primaryQueueSaved(p)
    \/ \E p \in Passes : primaryQueried(p)
    \/ \E p \in Passes, i \in 1..Len(TargetVehicles) : secondaryQueueSaved(p, i)
    \/ \E p \in Passes, i \in 1..Len(TargetVehicles) : secondaryQueried(p, i)
    \/ \E p \in Passes, mode \in {"all", "first"} : sendAircraftResolved(p, mode)
    \/ \E p \in Passes : sendAircraftRejected(p)
    \/ \E p \in Passes : receiptsApplied(p)
    \/ \E p \in Passes : handleAircraftSubmissionReceipts(p)

Spec == Init /\ [][Next]_vars

\* ------------------------------------------------------------------------
\* The ledger on its own: updateFlightPointReceipts applied to any table
\* ------------------------------------------------------------------------

\* The points the table may hold: those of the first target and one of the second.
LedgerKeys ==
    {<<TargetVehicles[1], t>> : t \in 1..MaxLedgerNow} \cup {<<TargetVehicles[2], 1>>}

LedgerRow(key, synchronised) ==
    [newFlightPointModel(key[1], flightPointFromBinary(key[2], LiveAircraftObject)) EXCEPT !.synchronised = synchronised]

\* Every table over a subset of the keys, each row synchronised or not.
LedgerTables ==
    UNION {{{LedgerRow(k, k \in acked) : k \in keys} : acked \in SUBSET keys} :
            keys \in SUBSET LedgerKeys}

\* FlightPointReceipt objects: any aircraft with the hash of any key or a hash
\* the table does not hold, acknowledged or not.
LedgerReceipts ==
    [AircraftIcao : Icaos,
     flightPointHash : {LedgerRow(k, FALSE).flightPointHash : k \in LedgerKeys} \cup {"unknown"},
     synchronised : BOOLEAN]

InitLedger ==
    /\ awaitingUpdateResponse = FALSE
    /\ isSlaveMode = FALSE
    /\ aircraft = {}
    /\ isSetup = [a \in Icaos |-> FALSE]
    /\ savedUpdates = [a \in Icaos |-> << >>]
    /\ FlightPoints \in LedgerTables
    /\ targetIdx = 1
    /\ targetPc = "select"
    /\ pass = [p \in Passes |-> IdlePass]
    /\ now = 0
    /\ handed = {}
    /\ queuedOutstanding = {}
    /\ failedFlush = FALSE
    /\ receiptsArray = << >>
    /\ applications = 0
    /\ registered = << >>
    /\ queried = << >>
    /\ NoTraces
    /\ NoOther

trackerVars ==
    <<awaitingUpdateResponse, isSlaveMode, aircraft, isSetup, savedUpdates, targetIdx,
      targetPc, pass, now, handed, queuedOutstanding, failedFlush>>

\* The master puts one more receipt into the array of its response.
receiptPushed(receipt) ==
    /\ Len(receiptsArray) < MaxReceipts
    /\ receiptsArray' = Append(receiptsArray, receipt)
    /\ applications' = 0
    /\ registered' = << >>
    /\ queried' = << >>
    /\ UNCHANGED <<otherVars, mergeVars, trackerVars, FlightPoints>>

\* updateFlightPointReceipts(receiptsArray) is called (once more).
receiptsUpdated ==
    /\ applications < MaxApplications
    /\ FlightPoints' = updateFlightPointReceipts(FlightPoints, receiptsArray)
    /\ applications' = applications + 1
    /\ registered' = << >>
    /\ queried' = << >>
    /\ UNCHANGED <<otherVars, mergeVars, trackerVars, receiptsArray>>

\* The handler of the response returns: no receipts array is at hand any more.
receiptsHandled ==
    /\ applications > 0
    /\ receiptsArray # << >>
    /\ receiptsArray' = << >>
    /\ applications' = 0
    /\ registered' = << >>
    /\ queried' = << >>
    /\ UNCHANGED <<otherVars, mergeVars, trackerVars, FlightPoints>>

\* Between two responses a point is built and given to saveToAircraft.
pointRegistered(key) ==
    /\ receiptsArray = << >>
    /\ FlightPoints' = saveToAircraft(FlightPoints, key[1], <<flightPointFromBinary(key[2], LiveAircraftObject)>>)
    /\ registered' = <<key>>
    /\ queried' = << >>
    /\ applications' = 0
    /\ UNCHANGED <<otherVars, mergeVars, trackerVars, receiptsArray>>

\* Between two responses getUnsynchronisedPointsFor(icao) is called.
pointsQueried(icao) ==
    /\ receiptsArray = << >>
    /\ queried' = <<getUnsynchronisedPointsFor(FlightPoints, icao)>>
    /\ registered' = << >>
    /\ applications' = 0
    /\ UNCHANGED <<otherVars, mergeVars, trackerVars, FlightPoints, receiptsArray>>

NextLedger ==
    \/ \E receipt \in LedgerReceipts : receiptPushed(receipt)
    \/ receiptsUpdated
    \/ receiptsHandled
    \/ \E key \in LedgerKeys : pointRegistered(key)
    \/ \E icao \in Icaos : pointsQueried(icao)

SpecLedger == InitLedger /\ [][NextLedger]_vars

\* ------------------------------------------------------------------------
\* Traces: mergeAllTraces
\* ------------------------------------------------------------------------

\* The timestamp of a merged trace without samples is parseFloat(undefined),
\* NaN: a trace timestamp is NaN or <<n>>.

\* An AircraftTrace document as fetched: its timestamp and the offsets of its samples.
TraceFiles ==
    [timestamp : TraceTimestamps,
     offsets : UNION {[1..n -> TraceOffsets] : n \in 0..MaxSamples}]

\* JSON.parse of the documents: fresh TraceObjects holding their offsets.
parsedHeap(docs) ==
    [id \in SampleIds |->
        IF docs[id[1]] # << >> /\ id[2] <= Len(docs[id[1]][1].offsets)
        THEN docs[id[1]][1].offsets[id[2]] ELSE 0]

\* The AircraftTrace object of document k (null when the document is): every
\* document reports the same aircraft with its own values of the other fields.
aircraftTrace(docs, k) ==
    IF docs[k] = << >> THEN << >>
    ELSE << [icao |-> "a1", r |-> k, t |-> k, desc |-> k, ownOp |-> k, year |-> k,
             timestamp |-> <<docs[k][1].timestamp>>,
             trace |-> [i \in 1..Len(docs[k][1].offsets) |-> <<k, i>>]] >>

\* Number.prototype.toString for an integer, as the sequence of its character codes.
RECURSIVE digits(_)
digits(n) ==
    IF n < 10 THEN <<48 + n>> ELSE Append(digits(n \div 10), 48 + (n % 10))

numberToString(n) == IF n < 0 THEN <<45>> \o digits(0 - n) ELSE digits(n)

\* The default comparison of Array.prototype.sort: by UTF-16 code units.
RECURSIVE stringLess(_, _)
stringLess(a, b) ==
    IF a = << >> THEN b # << >>
    ELSE IF b = << >> THEN FALSE
    ELSE IF Head(a) # Head(b) THEN Head(a) < Head(b)
    ELSE stringLess(Tail(a), Tail(b))

\* Object.keys(absoluteTimestampDict).sort() sorting the keys as numbers.
RECURSIVE sortedKeys_numeric(_)
sortedKeys_numeric(keys) ==
    IF keys = {} THEN << >>
    ELSE LET first == CHOOSE k \in keys : \A q \in keys : k <= q
         IN <<first>> \o sortedKeys_numeric(keys \ {first})

\* Object.keys(absoluteTimestampDict).sort(): the keys are strings and sort()
\* without a comparison function compares them as strings.
RECURSIVE sortedKeys(_)
sortedKeys(keys) ==
    IF keys = {} THEN << >>
    ELSE LET first == CHOOSE k \in keys :
                        \A q \in keys \ {k} : stringLess(numberToString(k), numberToString(q))
         IN <<first>> \o sortedKeys(keys \ {first})

\* normaliseTimestamps: trace[i][0] += timestamp, for the positions from i on.
RECURSIVE normaliseTimestamps(_, _, _)
normaliseTimestamps(h, aircraftTrace_, i) ==
    IF i > Len(aircraftTrace_.trace) THEN h
    ELSE normaliseTimestamps(
            [h EXCEPT ![aircraftTrace_.trace[i]] = @ + aircraftTrace_.timestamp[1]],
            aircraftTrace_, i + 1)

\* relativeTimestamps that leaves the absolute timestamps in place.
relativeTimestamps_skip(h, aircraftTrace_, i) == h

\* relativeTimestamps: trace[i][0] -= timestamp, for the positions from i on.
RECURSIVE relativeTimestamps(_, _, _)
relativeTimestamps(h, aircraftTrace_, i) ==
    IF i > Len(aircraftTrace_.trace) THEN h
    ELSE relativeTimestamps(
            [h EXCEPT ![aircraftTrace_.trace[i]] = @ - aircraftTrace_.timestamp[1]],
            aircraftTrace_, i + 1)

\* absoluteTimestampDict as the sequence of its <<key, TraceObject>> entries.
inDict(dict, key) == \E i \in 1..Len(dict) : dict[i][1] = key

\* The assignment to absoluteTimestampDict without the `in` test.
setTraceObject_overwrite(dict, key, traceObject) ==
    SelectSeq(dict, LAMBDA e : e[1] # key) \o << <<key, traceObject>> >>

\* if(!(absoluteTimestamp in absoluteTimestampDict)) absoluteTimestampDict[absoluteTimestamp] = traceObject
setTraceObject(dict, key, traceObject) ==
    IF inDict(dict, key) THEN dict ELSE Append(dict, <<key, traceObject>>)

\* The inner loop over normalisedTrace.trace, from position i on.
RECURSIVE addTraceObjects(_, _, _, _)
addTraceObjects(dict, h, trace, i) ==
    IF i > Len(trace) THEN dict
    ELSE addTraceObjects(setTraceObject(dict, h[trace[i]], trace[i]), h, trace, i + 1)

\* The outer loop over the given traces, from argument i on: skips null ones,
\* normalises the others in place and enters their TraceObjects.
RECURSIVE addTraces(_, _, _)
addTraces(st, traces, i) ==
    IF i > Len(traces) THEN st
    ELSE IF traces[i] = << >> THEN addTraces(st, traces, i + 1)
    ELSE LET h == normaliseTimestamps(st.heap, traces[i][1], 1)
         IN addTraces([heap |-> h,
                       dict |-> addTraceObjects(st.dict, h, traces[i][1].trace, 1)],
                      traces, i + 1)

\* The reference is the last trace that is not null.
referenceTrace_last(traces) ==
    LET given == {i \in 1..Len(traces) : traces[i] # << >>}
    IN IF given = {} THEN << >>
       ELSE traces[CHOOSE i \in given : \A j \in given : j <= i]

\* let referenceTrace = traces[0]
referenceTrace(traces) == IF Len(traces) = 0 THEN << >> ELSE traces[1]

\* mergeAllTraces(...traces) on the heap h: whether it threw, the heap it
\* leaves and the trace it returned.
mergeAllTraces(h, traces) ==
    IF referenceTrace(traces) = << >>
    THEN [thrown |-> TRUE, heap |-> h, trace |-> << >>]
    ELSE LET ref == referenceTrace(traces)[1]
             st == addTraces([heap |-> h, dict |-> << >>], traces, 1)
             keys == sortedKeys({st.dict[i][1] : i \in 1..Len(st.dict)})
             valueOf(key) == st.dict[CHOOSE i \in 1..Len(st.dict) : st.dict[i][1] = key][2]
             resultingTrace ==
                [icao |-> ref.icao, r |-> ref.r, t |-> ref.t, desc |-> ref.desc,
                 ownOp |-> ref.ownOp, year |-> ref.year,
                 timestamp |-> IF keys = << >> THEN NaN ELSE <<keys[1]>>,
                 trace |-> [i \in 1..Len(keys) |-> valueOf(keys[i])]]
         IN [thrown |-> FALSE,
             heap |-> relativeTimestamps(st.heap, resultingTrace, 1),
             trace |-> <<resultingTrace>>]

\* The argument lists mergeAllTraces is called with: (A, B, C), (A, B) and (A, A).
MergeCalls == {<<1, 2, 3>>, <<1, 2>>, <<1, 1>>}

InitMerge ==
    /\ awaitingUpdateResponse = FALSE
    /\ isSlaveMode = FALSE
    /\ aircraft = {}
    /\ isSetup = [a \in Icaos |-> FALSE]
    /\ savedUpdates = [a \in Icaos |-> << >>]
    /\ FlightPoints = {}
    /\ targetIdx = 1
    /\ targetPc = "select"
    /\ pass = [p \in Passes |-> IdlePass]
    /\ now = 0
    /\ handed = {}
    /\ queuedOutstanding = {}
    /\ failedFlush = FALSE
    /\ receiptsArray = << >>
    /\ applications = 0
    /\ registered = << >>
    /\ queried = << >>
    /\ files \in [TraceIdx -> {<< >>} \cup {<<f>> : f \in TraceFiles}]
    /\ heap = parsedHeap(files)
    /\ mergeArgs = << >>
    /\ mergedTrace = << >>
    /\ mergePc = "read"
    /\ NoOther

\* mergeAllTraces is called with the objects of the documents args names.
mergeAllTracesCalled(args) ==
    /\ mergePc = "read"
    /\ LET m == mergeAllTraces(heap, [i \in 1..Len(args) |-> aircraftTrace(files, args[i])])
       IN /\ heap' = m.heap
          /\ mergedTrace' = m.trace
          /\ mergePc' = IF m.thrown THEN "thrown" ELSE "merged"
    /\ mergeArgs' = args
    /\ UNCHANGED <<otherVars, trackerVars, ledgerVars, FlightPoints, files>>

\* The trace returned for (A, B) is merged with C.
mergedTraceMerged ==
    /\ mergePc = "merged"
    /\ mergeArgs = <<1, 2>>
    /\ LET m == mergeAllTraces(heap, <<mergedTrace, aircraftTrace(files, 3)>>)
       IN /\ heap' = m.heap
          /\ mergedTrace' = m.trace
    /\ mergePc' = "nested"
    /\ UNCHANGED <<otherVars, trackerVars, ledgerVars, FlightPoints, files, mergeArgs>>

NextMerge ==
    \/ \E args \in MergeCalls : mergeAllTracesCalled(args)
    \/ mergedTraceMerged

SpecMerge == InitMerge /\ [][NextMerge]_vars

\* ------------------------------------------------------------------------
\* The live feed: binaryUpdateReceived and decodeBinaryUpdate
\* ------------------------------------------------------------------------

\* conf.AIRCRAFT_TIMEOUT, in seconds.
AIRCRAFT_TIMEOUT == 60

\* The seconds between two binary updates: the timeout to the second, and one more.
FrameDeltas == {AIRCRAFT_TIMEOUT, AIRCRAFT_TIMEOUT + 1}

\* What zstdDecoder.init() and zstdDecoder.decode(buffer, 0) can do, as
\* decodeBinaryUpdate tells the cases apart: return the decompressed buffer,
\* throw a ZSTDDecompressionFailed with error_code "find-decompressed-size" or
\* with another error code, or fail with an error of another class.
ZSTDDecompressionFailed == {"find-decompressed-size", "decompress-failed"}

DecompressOutcomes == {"ok", "error"} \cup ZSTDDecompressionFailed

\* What wqi.wqiDecode(resultData) can do: decode, throw a TypeError, or throw
\* an error of another class.
DecodeOutcomes == {"ok", "TypeError", "error"}

\* decodeBinaryUpdate that rethrows what wqiDecode throws, unless it is a TypeError.
decodeBinaryUpdate_rethrow(decompress, decode) ==
    IF decompress = "error" \/ decode = "error" THEN "thrown"
    ELSE IF decode = "TypeError" THEN "null" ELSE "update"

\* decodeBinaryUpdate(buffer) for a buffer on which the decompression and the
\* structural decoding end as given: "update" (a DecodedBinaryUpdate), "null",
\* or "thrown" (the promise is rejected).
decodeBinaryUpdate(decompress, decode) ==
    LET decompressedBuffer ==
            IF decompress = "ok" THEN "decompressed"
            ELSE IF decompress \in ZSTDDecompressionFailed
                 THEN (IF decompress = "find-decompressed-size" THEN "buffer" ELSE "buffer")
                 ELSE "thrown"
    IN IF decompressedBuffer = "thrown" THEN "thrown"
       ELSE IF decode = "TypeError" THEN "null"
       ELSE IF decode # "ok" THEN "null"
       ELSE "update"

\* The tracker runs on the targets it was given so far, none of which had a
\* trace to submit; no response of the live feed has been received.
InitFeed ==
    /\ awaitingUpdateResponse = FALSE
    /\ isSlaveMode \in BOOLEAN
    /\ \E n \in 0..Len(TargetVehicles) :
        /\ aircraft = {TargetVehicles[i] : i \in 1..n}
        /\ targetIdx = n + 1
    /\ isSetup = [a \in Icaos |-> a \in aircraft]
    /\ savedUpdates = [a \in Icaos |-> << >>]
    /\ FlightPoints = {}
    /\ targetPc = "select"
    /\ pass = [p \in Passes |-> IdlePass]
    /\ now = 0
    /\ handed = {}
    /\ queuedOutstanding = {}
    /\ failedFlush = FALSE
    /\ receiptsArray = << >>
    /\ applications = 0
    /\ registered = << >>
    /\ queried = << >>
    /\ NoTraces
    /\ NoOther

\* The variables of the tracker that distributing a frame does not write.
passiveVars ==
    <<isSlaveMode, aircraft, isSetup, FlightPoints, targetIdx, targetPc, handed,
      queuedOutstanding, failedFlush>>

\* trackedAircraft.numTracked()
numTracked == Cardinality(aircraft)

\* binaryUpdateReceived(response) up to its first await. The promise it returns
\* is settled nowhere unless aircraft are tracked and the response is a binCraft
\* update (matches); then the buffer is read and given to decodeBinaryUpdate.
binaryUpdateReceived(matches, delta) ==
    /\ framePc = "idle"
    /\ handlerPromise' = "pending"
    /\ frame' = << >>
    /\ decodedBinaryUpdate' = "none"
    /\ unhandledRejection' = FALSE
    /\ chain' = [a \in Icaos |-> "none"]
    /\ IF numTracked > 0 /\ matches
       THEN /\ now < MaxNow
            /\ now' = now + 1
            /\ clock' = clock + delta
            /\ framePc' = "decoding"
       ELSE UNCHANGED <<now, clock, framePc>>
    /\ UNCHANGED <<laterVars, pointVars, mergeVars, ledgerVars, passiveVars, awaitingUpdateResponse, savedUpdates, pass,
                   lastBinaryUpdate, isActiveNow>>

\* decodeBinaryUpdate settles. A rejection passes down the chain of
\* binaryUpdateReceived, which has no catch; null is given to the callback that
\* distributes the update, which calls decodedBinaryUpdate.findAircraftObjectByIcao
\* for the first tracked aircraft: the TypeError rejects the promise of the
\* chain. In both cases resolve() of the handler's promise is never reached.
\* present are the aircraft the decoded update has an object for.
binaryUpdateDecoded(decompress, decode, present) ==
    /\ framePc = "decoding"
    /\ frame' = <<[decompress |-> decompress, decode |-> decode, present |-> present]>>
    /\ decodedBinaryUpdate' = decodeBinaryUpdate(decompress, decode)
    /\ IF decodedBinaryUpdate' = "update"
       THEN /\ framePc' = "distributing"
            /\ UNCHANGED unhandledRejection
       ELSE /\ framePc' = "idle"
            /\ unhandledRejection' = (decodedBinaryUpdate' = "thrown" \/ numTracked > 0)
    /\ handlerPromise' = IF decodedBinaryUpdate' = "null" /\ numTracked = 0
                         THEN "resolved" ELSE handlerPromise
    /\ UNCHANGED <<laterVars, pointVars, mergeVars, ledgerVars, passiveVars, awaitingUpdateResponse, savedUpdates, pass,
                   now, clock, chain, lastBinaryUpdate, isActiveNow>>

\* Object.values(trackedAircraft.aircraft): the tracked aircraft in the order
\* they were added; the next one of them the frame is to be distributed to.
Undistributed == SelectSeq(TargetVehicles, LAMBDA a : a \in aircraft /\ chain[a] = "none")

\* timeoutProperties.isTimeout()
isTimeout(icao) ==
    \/ lastBinaryUpdate[icao] = << >>
    \/ lastBinaryUpdate[icao][1] = 0
    \/ clock - lastBinaryUpdate[icao][1] > AIRCRAFT_TIMEOUT

\* The callback of the map over the tracked aircraft, for the next aircraft, up
\* to its first await of real I/O. With an object for the aircraft in the update
\* the point is handed to updateAircraft; when that resolves (the point is
\* queued) lastBinaryUpdate and isActiveNow are set and the aircraft is saved,
\* when it starts an update pass the promise waits for the pass. Without an
\* object, an active aircraft that has timed out is given to
\* handleAircraftTimeout, which in slave mode first asks the master; for any
\* other aircraft the promise made is never settled.
aircraftDistributed ==
    /\ framePc = "distributing"
    /\ Undistributed # << >>
    /\ LET icao == Head(Undistributed) IN
        IF icao \in frame[1].present
        THEN IF savesForLater(icao)
             THEN /\ savedUpdates' = [savedUpdates EXCEPT ![icao] = Append(@, flightPointFromBinary(now, LiveAircraftObject))]
                  /\ lastBinaryUpdate' = [lastBinaryUpdate EXCEPT ![icao] = <<clock>>]
                  /\ isActiveNow' = [isActiveNow EXCEPT ![icao] = TRUE]
                  /\ chain' = [chain EXCEPT ![icao] = "settled"]
                  /\ UNCHANGED <<awaitingUpdateResponse, pass>>
             ELSE /\ \E p \in Passes : pass[p].pc = "idle"
                  /\ performUpdatePass(FreePass, icao, <<flightPointFromBinary(now, LiveAircraftObject)>>, "update")
                  /\ chain' = [chain EXCEPT ![icao] = "pass"]
                  /\ UNCHANGED <<savedUpdates, lastBinaryUpdate, isActiveNow>>
        ELSE /\ IF isActiveNow[icao] /\ isTimeout(icao)
                THEN IF isSlaveMode
                     THEN /\ chain' = [chain EXCEPT ![icao] = "reporting"]
                          /\ UNCHANGED isActiveNow
                     ELSE /\ chain' = [chain EXCEPT ![icao] = "settled"]
                          /\ isActiveNow' = [isActiveNow EXCEPT ![icao] = FALSE]
                ELSE /\ chain' = [chain EXCEPT ![icao] = "never"]
                     /\ UNCHANGED isActiveNow
             /\ UNCHANGED <<awaitingUpdateResponse, savedUpdates, pass, lastBinaryUpdate>>
    /\ UNCHANGED <<laterVars, pointVars, mergeVars, ledgerVars, passiveVars, now, clock, framePc, frame,
                   decodedBinaryUpdate, handlerPromise, unhandledRejection>>

\* handleAircraftTimeout in slave mode: master.reportAircraftTimeout settles.
\* Whatever the determination, the aircraft is inactivated; when the report
\* is rejected, so is handleAircraftTimeout, and nothing handles the rejection.
handleAircraftTimeout(icao, reported) ==
    /\ chain[icao] = "reporting"
    /\ IF reported
       THEN /\ isActiveNow' = [isActiveNow EXCEPT ![icao] = FALSE]
            /\ chain' = [chain EXCEPT ![icao] = "settled"]
            /\ UNCHANGED unhandledRejection
       ELSE /\ chain' = [chain EXCEPT ![icao] = "never"]
            /\ unhandledRejection' = TRUE
            /\ UNCHANGED isActiveNow
    /\ UNCHANGED <<laterVars, pointVars, mergeVars, ledgerVars, passiveVars, awaitingUpdateResponse, savedUpdates, pass,
                   now, clock, framePc, frame, decodedBinaryUpdate, handlerPromise, lastBinaryUpdate>>

\* The frame has been distributed to every tracked aircraft. Promise.allSettled
\* settles, and the handler's promise is resolved, once every promise of the map
\* has settled; the next response is taken up.
binaryUpdateDistributed ==
    /\ framePc = "distributing"
    /\ Undistributed = << >>
    /\ \A a \in aircraft : chain[a] # "reporting"
    /\ framePc' = "idle"
    /\ handlerPromise' = IF \A a \in aircraft : chain[a] = "settled" THEN "resolved" ELSE "pending"
    /\ UNCHANGED <<laterVars, pointVars, mergeVars, ledgerVars, passiveVars, awaitingUpdateResponse, savedUpdates, pass,
                   now, clock, frame, decodedBinaryUpdate, unhandledRejection, chain,
                   lastBinaryUpdate, isActiveNow>>

NextFeed ==
    \/ \E matches \in BOOLEAN, delta \in FrameDeltas : binaryUpdateReceived(matches, delta)
    \/ \E decompress \in DecompressOutcomes, decode \in DecodeOutcomes, present \in SUBSET Icaos :
            binaryUpdateDecoded(decompress, decode, present)
    \/ aircraftDistributed
    \/ \E icao \in Icaos, reported \in BOOLEAN : handleAircraftTimeout(icao, reported)
    \/ binaryUpdateDistributed

SpecFeed == InitFeed /\ [][NextFeed]_vars

\* ------------------------------------------------------------------------
\* The normalisers and the hash on raw samples of both feeds
\* ------------------------------------------------------------------------

\* The telemetry of a sample besides position and altitude: all of it absent
\* (the given value for "absent"), or all of it present.
Telemetry(absent) ==
    {[gs |-> absent, rate |-> absent, source |-> absent],
     [gs |-> Number(5), rate |-> Number(-3), source |-> String("adsb_icao")]}

\* The traceObjects of a trace document: a missing value is null.
TraceObjects ==
    {TraceObject(offset, lat, lon, alt, tel.gs, tel.rate, tel.source) :
        offset \in {0, 1}, lat \in {null, Number(1), Number(11)},
        lon \in {null, Number(2), Number(12)},
        alt \in {null, ground, Number(0), Number(100)}, tel \in Telemetry(null)}

\* The aircraft objects of a binary update: a missing value has no key.
BinaryAircraftObjects ==
    {[lat |-> lat, lon |-> lon, alt_baro |-> alt, baro_rate |-> tel.rate, gs |-> tel.gs,
      track |-> undefined, type |-> tel.source] :
        lat \in {undefined, Number(1), Number(11)},
        lon \in {undefined, Number(2), Number(12)},
        alt \in {undefined, ground, Number(0), Number(100)}, tel \in Telemetry(undefined)}

\* One sample of each feed is at hand, taken at second 7 or 8.
InitPoint ==
    /\ awaitingUpdateResponse = FALSE
    /\ isSlaveMode = FALSE
    /\ aircraft = {}
    /\ isSetup = [a \in Icaos |-> FALSE]
    /\ savedUpdates = [a \in Icaos |-> << >>]
    /\ FlightPoints = {}
    /\ targetIdx = 1
    /\ targetPc = "select"
    /\ pass = [p \in Passes |-> IdlePass]
    /\ now = 0
    /\ handed = {}
    /\ queuedOutstanding = {}
    /\ failedFlush = FALSE
    /\ receiptsArray = << >>
    /\ applications = 0
    /\ registered = << >>
    /\ queried = << >>
    /\ NoTraces
    /\ NoFeed
    /\ rawTrace \in {<<[timestamp |-> 7, trace |-> <<traceObject>>]>> : traceObject \in TraceObjects}
    /\ rawBinary \in {<<[now |-> updateAt, aircraftObject |-> binaryAircraftObject]>> :
                        updateAt \in {7, 8}, binaryAircraftObject \in BinaryAircraftObjects}
    /\ flightPoints = [feed \in {"trace", "binary"} |-> << >>]
    /\ hashed = [feed \in {"trace", "binary"} |-> << >>]
    /\ NoLater

\* flightPointsFromTrace is called on the trace.
traceNormalised ==
    /\ flightPoints["trace"] = << >>
    /\ flightPoints' = [flightPoints EXCEPT !["trace"] = flightPointsFromTrace(rawTrace[1])]
    /\ UNCHANGED <<laterVars, feedVars, mergeVars, trackerVars, ledgerVars, FlightPoints, rawTrace, rawBinary, hashed>>

\* flightPointFromBinary is called on the aircraft object.
binaryNormalised ==
    /\ flightPoints["binary"] = << >>
    /\ flightPoints' = [flightPoints EXCEPT
            !["binary"] = <<flightPointFromBinary(rawBinary[1].now, rawBinary[1].aircraftObject)>>]
    /\ UNCHANGED <<laterVars, feedVars, mergeVars, trackerVars, ledgerVars, FlightPoints, rawTrace, rawBinary, hashed>>

\* buildFlightPointsModels(flightPoints).saveToAircraft(aircraft) up to its save:
\* the models of the points of one feed are built and given their hash.
pointsHashed(feed, icao) ==
    /\ flightPoints[feed] # << >>
    /\ hashed[feed] = << >>
    /\ hashed' = [hashed EXCEPT ![feed] = [i \in 1..Len(flightPoints[feed]) |->
                                              newFlightPointModel(icao, flightPoints[feed][i])]]
    /\ UNCHANGED <<laterVars, feedVars, mergeVars, trackerVars, ledgerVars, FlightPoints, rawTrace, rawBinary,
                   flightPoints>>

NextPoint ==
    \/ traceNormalised
    \/ binaryNormalised
    \/ \E feed \in {"trace", "binary"}, icao \in Icaos : pointsHashed(feed, icao)

SpecPoint == InitPoint /\ [][NextPoint]_vars

\* ------------------------------------------------------------------------
\* trackedAircraft: the missed-update counters
\* ------------------------------------------------------------------------

\* Calls of missingUpdate made for one aircraft.
MaxMissed == 3

\* Length of the FlightPoint sequences given to the segmenter.
MaxPoints == 3

\* conf.NUM_MISSED_UPDATES_AIRCRAFT_LANDED: conf.js defines no such property.
NUM_MISSED_UPDATES_AIRCRAFT_LANDED == undefined

\* n >= x, for a number n: false unless x is a number.
greaterOrEqual(n, x) == x.kind = "number" /\ n >= x.value

\* The variables that the functions of trackedAircraft do not write.
untrackedVars ==
    <<awaitingUpdateResponse, isSlaveMode, isSetup, FlightPoints, targetIdx, targetPc, pass,
      now, handed, queuedOutstanding, failedFlush, ledgerVars, mergeVars, feedVars, pointVars,
      tableVars, segmentVars>>

\* trackedAircraft.add(aircraftModel)
add(icao) ==
    /\ IF icao \notin aircraft
       THEN /\ aircraft' = aircraft \cup {icao}
            /\ savedUpdates' = [savedUpdates EXCEPT ![icao] = << >>]
       ELSE UNCHANGED <<aircraft, savedUpdates>>
    /\ UNCHANGED <<missedUpdates, shouldRunTracker, shutdownPc, untrackedVars>>

\* trackedAircraft.remove(aircraftModel)
remove(icao) ==
    /\ aircraft' = aircraft \ {icao}
    /\ missedUpdates' = [missedUpdates EXCEPT ![icao] = 0]
    /\ savedUpdates' = [savedUpdates EXCEPT ![icao] = << >>]
    /\ UNCHANGED <<shouldRunTracker, shutdownPc, untrackedVars>>

\* trackedAircraft.missingUpdate(aircraftModel)
missingUpdate(icao) ==
    /\ missedUpdates[icao] < MaxMissed
    /\ IF greaterOrEqual(missedUpdates[icao] + 1, NUM_MISSED_UPDATES_AIRCRAFT_LANDED)
       THEN remove(icao)
       ELSE /\ missedUpdates' = [missedUpdates EXCEPT ![icao] = @ + 1]
            /\ UNCHANGED <<aircraft, savedUpdates, shouldRunTracker, shutdownPc, untrackedVars>>

\* The functions of trackedAircraft, called in any order.
NextTracked ==
    \/ \E icao \in Icaos : add(icao)
    \/ \E icao \in Icaos : remove(icao)
    \/ \E icao \in Icaos : missingUpdate(icao)

SpecTracked == Init /\ [][NextTracked]_vars

\* ------------------------------------------------------------------------
\* Shutdown
\* ------------------------------------------------------------------------

\* process.on("SIGINT"): the handler runTracker has set.
sigint ==
    /\ shutdownPc = "running"
    /\ shouldRunTracker' = FALSE
    /\ UNCHANGED <<missedUpdates, shutdownPc, aircraft, savedUpdates, untrackedVars>>

\* runTracker has returned or thrown: selectTargetVehicles has returned and the
\* loop has found shouldRunTracker false, or selectTargetVehicles has thrown.
trackerComplete ==
    \/ targetPc = "select" /\ targetIdx > Len(TargetVehicles) /\ ~shouldRunTracker
    \/ targetPc = "aborted"

\* main calls shutdownSlave, which awaits master.disconnectSlave.
disconnectSlave ==
    /\ shutdownPc = "running"
    /\ trackerComplete
    /\ shutdownPc' = "disconnected"
    /\ UNCHANGED <<missedUpdates, shouldRunTracker, aircraft, savedUpdates, untrackedVars>>

\* shutdownSlave closes the browser and awaits database.closeDatabase.
closeDatabase ==
    /\ shutdownPc = "disconnected"
    /\ shutdownPc' = "closed"
    /\ UNCHANGED <<missedUpdates, shouldRunTracker, aircraft, savedUpdates, untrackedVars>>

\* The tracker runs until shutdownSlave is called.
NextShutdown ==
    \/ shutdownPc = "running" /\ Next
    \/ sigint
    \/ disconnectSlave
    \/ closeDatabase

SpecShutdown == Init /\ [][NextShutdown]_vars

\* ------------------------------------------------------------------------
\* The Aircraft table
\* ------------------------------------------------------------------------

\* The AircraftState objects createAircraft is given: the flight name read from
\* a trace may differ from one call to the next.
AircraftStates == {[icao |-> icao, flightName |-> flightName] :
                      icao \in Icaos, flightName \in {"POL35", "POL30"}}

\* buildAircraftModel(aircraftState)
buildAircraftModel(aircraftState) ==
    [icao |-> aircraftState.icao, flightName |-> aircraftState.flightName]

\* findOne that finds nothing.
findOne_none(table, icao) == << >>

\* sequelize.models.Aircraft.findOne({ where: { icao: icao } }): << >> is null.
findOne(table, icao) ==
    IF \E row \in table : row.icao = icao
    THEN <<CHOOSE row \in table : row.icao = icao>>
    ELSE << >>

\* The variables createAircraft does not write.
tablelessVars ==
    <<trackerVars, FlightPoints, ledgerVars, mergeVars, feedVars, pointVars, missedUpdates,
      shouldRunTracker, shutdownPc, segmentVars>>

\* createAircraft(aircraftState) up to its await of findOne. Its callers await
\* it before they call it again.
createAircraft(aircraftState) ==
    /\ creating = << >>
    /\ creating' = <<[aircraftState |-> aircraftState,
                      existingAircraft |-> findOne(Aircraft, aircraftState.icao)]>>
    /\ createResult' = << >>
    /\ UNCHANGED <<Aircraft, createdBefore, tablelessVars>>

\* createAircraft after findOne: the model is built and saved unless a row was
\* found. icao is the primary key of the table: the save of a second row of an
\* ICAO is rejected, and so is the call.
aircraftReturned ==
    /\ creating # << >>
    /\ LET aircraftState == creating[1].aircraftState
           existingAircraft == creating[1].existingAircraft
           aircraftModel == buildAircraftModel(aircraftState)
       IN  IF existingAircraft = << >>
           THEN IF \E row \in Aircraft : row.icao = aircraftModel.icao
                THEN /\ createResult' = <<[kind |-> "thrown", model |-> aircraftModel,
                                           created |-> FALSE, aircraftState |-> aircraftState]>>
                     /\ UNCHANGED Aircraft
                ELSE /\ Aircraft' = Aircraft \cup {aircraftModel}
                     /\ createResult' = <<[kind |-> "returned", model |-> aircraftModel,
                                           created |-> TRUE, aircraftState |-> aircraftState]>>
           ELSE /\ createResult' = <<[kind |-> "returned", model |-> existingAircraft[1],
                                      created |-> FALSE, aircraftState |-> aircraftState]>>
                /\ UNCHANGED Aircraft
    /\ createdBefore' = createdBefore \cup {creating[1].aircraftState.icao}
    /\ creating' = << >>
    /\ UNCHANGED tablelessVars

NextAircraft ==
    \/ \E aircraftState \in AircraftStates : createAircraft(aircraftState)
    \/ aircraftReturned

SpecAircraft == Init /\ [][NextAircraft]_vars

\* ------------------------------------------------------------------------
\* FlightSegmenter
\* ------------------------------------------------------------------------

\* The flight-timeout threshold and the larger "too long to be the same flight"
\* threshold, in seconds.
FlightTimeout == 2

HardGap == 4

\* The gaps between consecutive points: short, above the flight timeout, above
\* the hard threshold.
Gaps == {1, FlightTimeout + 1, HardGap + 1}

RECURSIVE sumTo(_, _)
sumTo(gaps, i) == IF i <= 1 THEN 0 ELSE gaps[i] + sumTo(gaps, i - 1)

\* The canonical FlightPoint sequences: ordered by timestamp, no timestamp twice.
\* Of a point the segmenter reads its timestamp and whether it is a ground point.
Canonical ==
    UNION {{[i \in 1..n |-> [timestamp |-> sumTo(gaps, i), isOnGround |-> onGround[i]]] :
                onGround \in [1..n -> BOOLEAN], gaps \in [1..n -> Gaps]} : n \in 0..MaxPoints}

\* PartialFlight.isCompleteFlight
isCompleteFlight(startedWithTakeoff, endedWithLanding, incompletePast, incompleteFuture) ==
    startedWithTakeoff /\ endedWithLanding /\ ~incompletePast /\ ~incompleteFuture

\* The boundaries without the hard segment boundary.
boundary_soft(open, earlier, later) ==
    LET gap == later.timestamp - earlier.timestamp IN
    IF gap > FlightTimeout /\ ~earlier.isOnGround /\ ~later.isOnGround THEN "timeout"
    ELSE IF /\ earlier.isOnGround
            /\ ~later.isOnGround
            /\ \E k \in 1..Len(open.points) : ~open.points[k].isOnGround
         THEN "ground"
    ELSE "none"

\* The boundary between two consecutive points, the earlier of which is the last
\* of the open partial: "hard", "timeout", "ground" or "none".
boundary(open, earlier, later) ==
    LET gap == later.timestamp - earlier.timestamp IN
    IF gap > HardGap THEN "hard"
    ELSE IF gap > FlightTimeout /\ ~earlier.isOnGround /\ ~later.isOnGround THEN "timeout"
    ELSE IF /\ earlier.isOnGround
            /\ ~later.isOnGround
            /\ \E k \in 1..Len(open.points) : ~open.points[k].isOnGround
         THEN "ground"
    ELSE "none"

\* A partial is opened with a point: by a boundary, or "first" with the first
\* point of the sequence. Each flag is set by the rules that name it.
opened_takeoff(point, by) ==
    [points |-> <<point>>,
     startedWithTakeoff |-> by = "ground" \/ point.isOnGround,
     incompletePast |-> by \in {"timeout", "hard"} \/ (by = "first" /\ ~point.isOnGround)]

opened(point, by) ==
    [points |-> <<point>>,
     startedWithTakeoff |-> by = "ground" \/ (by = "first" /\ point.isOnGround),
     incompletePast |-> by \in {"timeout", "hard"} \/ (by = "first" /\ ~point.isOnGround)]

\* The open partial is closed: by a boundary, or "last" after the last point of
\* the sequence.
closed(open, by) ==
    LET last == open.points[Len(open.points)]
        endedWithLanding == by = "ground" \/ (by = "last" /\ last.isOnGround)
        incompleteFuture == by \in {"timeout", "hard"} \/ (by = "last" /\ ~last.isOnGround)
    IN  [points |-> open.points,
         startedWithTakeoff |-> open.startedWithTakeoff,
         endedWithLanding |-> endedWithLanding,
         incompleteFuture |-> incompleteFuture,
         incompletePast |-> open.incompletePast,
         isCompleteFlight |-> isCompleteFlight(open.startedWithTakeoff, endedWithLanding,
                                               open.incompletePast, incompleteFuture)]

\* A scan that emits the partials closed by a boundary only.
RECURSIVE scan_boundaries(_, _, _, _)
scan_boundaries(points, i, emitted, open) ==
    IF i > Len(points) THEN emitted
    ELSE LET by == boundary(open, points[i - 1], points[i]) IN
         IF by = "none"
         THEN scan_boundaries(points, i + 1, emitted, [open EXCEPT !.points = Append(@, points[i])])
         ELSE scan_boundaries(points, i + 1, Append(emitted, closed(open, by)), opened(points[i], by))

\* The scan over the consecutive point pairs, left to right, from point i on.
RECURSIVE scan(_, _, _, _)
scan(points, i, emitted, open) ==
    IF i > Len(points) THEN Append(emitted, closed(open, "last"))
    ELSE LET by == boundary(open, points[i - 1], points[i]) IN
         IF by = "none"
         THEN scan(points, i + 1, emitted, [open EXCEPT !.points = Append(@, points[i])])
         ELSE scan(points, i + 1, Append(emitted, closed(open, by)), opened(points[i], by))

\* A segmenter that opens the first partial as a hard boundary would.
FlightSegmenter_hard(points) ==
    IF points = << >> THEN << >> ELSE scan(points, 2, << >>, opened(points[1], "hard"))

\* The PartialFlights of a canonical FlightPoint sequence.
FlightSegmenter(points) ==
    IF points = << >> THEN << >> ELSE scan(points, 2, << >>, opened(points[1], "first"))

\* One partial of a partial flight breakdown, as it is printed.
Partial(startedWithTakeoff, endedWithLanding, incompleteFuture, incompletePast, isComplete) ==
    [startedWithTakeoff |-> startedWithTakeoff,
     endedWithLanding |-> endedWithLanding,
     incompleteFuture |-> incompleteFuture,
     incompletePast |-> incompletePast,
     isCompleteFlight |-> isComplete]

\* A partial printed as a complete flight.
CompleteFlight == Partial(TRUE, TRUE, FALSE, FALSE, TRUE)

\* The breakdowns with partial #2 of aircraft_7c4ee8_t1 printed as complete.
ReferenceBreakdowns_complete ==
    [aircraft_7c4ee8_t1 |-> <<Partial(FALSE, TRUE, FALSE, TRUE, FALSE),
                              Partial(TRUE, FALSE, TRUE, FALSE, TRUE)>>,
     aircraft_7c4ee8_t2 |-> <<CompleteFlight, CompleteFlight>>,
     aircraft_7c4ee8_t3 |-> <<Partial(FALSE, TRUE, FALSE, TRUE, FALSE), CompleteFlight,
                              CompleteFlight, CompleteFlight, CompleteFlight>>,
     aircraft_7c4ef2_t1 |-> <<CompleteFlight, CompleteFlight, CompleteFlight, CompleteFlight,
                              CompleteFlight, CompleteFlight, CompleteFlight>>,
     aircraft_7c6bcf_t1 |-> <<CompleteFlight, CompleteFlight, CompleteFlight,
                              Partial(TRUE, FALSE, TRUE, FALSE, FALSE)>>,
     aircraft_7c68b7_t1 |-> <<CompleteFlight, CompleteFlight, CompleteFlight>>]

\* The partial flight breakdowns of the reference traces.
ReferenceBreakdowns ==
    [aircraft_7c4ee8_t1 |-> <<Partial(FALSE, TRUE, FALSE, TRUE, FALSE),
                              Partial(TRUE, FALSE, TRUE, FALSE, FALSE)>>,
     aircraft_7c4ee8_t2 |-> <<CompleteFlight, CompleteFlight>>,
     aircraft_7c4ee8_t3 |-> <<Partial(FALSE, TRUE, FALSE, TRUE, FALSE), CompleteFlight,
                              CompleteFlight, CompleteFlight, CompleteFlight>>,
     aircraft_7c4ef2_t1 |-> <<CompleteFlight, CompleteFlight, CompleteFlight, CompleteFlight,
                              CompleteFlight, CompleteFlight, CompleteFlight>>,
     aircraft_7c6bcf_t1 |-> <<CompleteFlight, CompleteFlight, CompleteFlight,
                              Partial(TRUE, FALSE, TRUE, FALSE, FALSE)>>,
     aircraft_7c68b7_t1 |-> <<CompleteFlight, CompleteFlight, CompleteFlight>>]

\* The variables the segmenter does not write.
segmentlessVars ==
    <<trackerVars, FlightPoints, ledgerVars, mergeVars, feedVars, pointVars, missedUpdates,
      shouldRunTracker, shutdownPc, tableVars>>

\* The segmenter is given a canonical sequence and emits its partials.
segmented(points) ==
    /\ partialFlights = << >>
    /\ segmenterInput' = points
    /\ partialFlights' = <<FlightSegmenter(points)>>
    /\ UNCHANGED <<breakdown, segmentlessVars>>

\* The partial flight breakdown of a reference trace is read.
breakdownRead(name) ==
    /\ breakdown = << >>
    /\ breakdown' = <<[name |-> name, partials |-> ReferenceBreakdowns[name]]>>
    /\ UNCHANGED <<segmenterInput, partialFlights, segmentlessVars>>

NextSegment ==
    \/ \E points \in Canonical : segmented(points)
    \/ \E name \in DOMAIN ReferenceBreakdowns : breakdownRead(name)

SpecSegment == Init /\ [][NextSegment]_vars

\* ------------------------------------------------------------------------
\* Properties
\* ------------------------------------------------------------------------

\* The passes whose master.sendAircraft call has not had its response handled.
RoundTrips == {p \in Passes : pass[p].pc \in {"inflight", "receipts", "applied"}}

\* A database save of some pass is in progress.
SaveInProgress ==
    \E p \in Passes :
        \/ pass[p].pc \in {"savePrimary", "saveQueued"}
        \/ \E i \in 1..Len(pass[p].secondary) : pass[p].secondary[i].pc = "save"

Queued(icao, timestamp) ==
    \E i \in 1..Len(savedUpdates[icao]) : savedUpdates[icao][i].timestamp = timestamp

Persisted(icao, timestamp) ==
    \E r \in FlightPoints : r.AircraftIcao = icao /\ r.timestamp = timestamp

\* C1: at every moment at most one synchronisation round-trip (a sendAircraft
\* call whose response has not been handled) is in flight, whichever of
\* updateAircraft and beginTrackingAircraft started the passes.
C1_AtMostOneRoundTrip == Cardinality(RoundTrips) <= 1

\* C2: no flight point is lost: whenever no database save is in progress, every
\* point handed to updateAircraft is still in its aircraft's savedUpdates queue
\* or is persisted in the FlightPoint table.
C2_NoPointLost ==
    ~SaveInProgress =>
        \A h \in handed : Queued(h[1], h[2]) \/ Persisted(h[1], h[2])

\* C3: after a failed flush round-trip (sendAircraft rejected) the next
\* updateAircraft call for a set-up aircraft starts a new submission: the gate
\* does not stay closed after the failure.
C3_RetriedAfterFailure ==
    [][(/\ failedFlush
        /\ Running = {}
        /\ \E icao \in Icaos : isSetup[icao] /\ <<icao, now + 1>> \in handed')
       => \E p \in Passes : pass'[p].pc = "savePrimary"]_vars

ReceiptsInTable(receiptsArrays) ==
    \A i \in 1..Len(receiptsArrays) : \A j \in 1..Len(receiptsArrays[i]) :
        \A r \in FlightPoints :
            (/\ r.AircraftIcao = receiptsArrays[i][j].AircraftIcao
             /\ r.flightPointHash = receiptsArrays[i][j].flightPointHash) => r.synchronised

\* C5: the gate is opened only by the handling of a response, and only after
\* the receipts of that response have been applied to the FlightPoint table.
C5_ReceiptsBeforeGate ==
    [][(awaitingUpdateResponse /\ ~awaitingUpdateResponse')
       => \E p \in RoundTrips : /\ pass'[p].pc = "idle"
                                /\ ReceiptsInTable(pass[p].receipts)
                                /\ FlightPoints' = FlightPoints]_vars

\* A response with receipts has been handled and the gate is open again.
C5_Witness ==
    /\ ~awaitingUpdateResponse
    /\ Running = {}
    /\ \E r \in FlightPoints : r.synchronised

\* The point is among the models a pass is saving for its aircraft.
BeingSaved(icao, timestamp) ==
    \E p \in Passes :
        \/ /\ pass[p].pc \in {"savePrimary", "saveQueued"}
           /\ pass[p].primary = icao
           /\ \E i \in 1..Len(pass[p].built) : pass[p].built[i].timestamp = timestamp
        \/ \E k \in 1..Len(pass[p].secondary) :
              /\ pass[p].secondary[k].pc = "save"
              /\ pass[p].secondary[k].icao = icao
              /\ \E i \in 1..Len(pass[p].secondary[k].built) :
                    pass[p].secondary[k].built[i].timestamp = timestamp

\* C6: every point queued while a round-trip was outstanding is eventually
\* persisted and submitted. A queued point reaches the table only from the
\* queue or from the models built from the queue, so until it is persisted it
\* must be held in one of the two.
C6_QueuedPointReachesTable ==
    isSlaveMode =>
        \A h \in queuedOutstanding :
            Queued(h[1], h[2]) \/ BeingSaved(h[1], h[2]) \/ Persisted(h[1], h[2])

BatchIcaos(p) == [i \in 1..Len(pass[p].aircraftArray) |-> pass[p].aircraftArray[i].icao]

SecondaryIcaos(p) == [i \in 1..Len(pass[p].secondary) |-> pass[p].secondary[i].icao]

\* The batch of a submitted pass: the primary first, then the secondaries, each once.
C7_Batch ==
    \A p \in Passes :
        (pass[p].trigger = "update" /\ pass[p].pc = "inflight") =>
            /\ BatchIcaos(p) = <<pass[p].primary>> \o SecondaryIcaos(p)
            /\ \A i, j \in 1..Len(BatchIcaos(p)) : i # j => BatchIcaos(p)[i] # BatchIcaos(p)[j]

\* The secondaries are the other tracked aircraft with a non-empty queue.
C7_Collect ==
    \A p \in Passes :
        (/\ pass[p].trigger = "update"
         /\ pass[p].pc = "queryPrimary"
         /\ pass'[p].pc \in {"secondary", "inflight"})
        => {pass'[p].secondary[i].icao : i \in 1..Len(pass'[p].secondary)}
             = {a \in aircraft : a # pass[p].primary /\ savedUpdates[a] # << >>}

Rows(points) == {points[i] : i \in 1..Len(points)}

ExactlyUnsynchronised(withPoints, icao) ==
    /\ withPoints.icao = icao
    /\ Rows(withPoints.FlightPoints)
         = {r \in FlightPoints : r.AircraftIcao = icao /\ r.synchronised = FALSE}
    /\ \A i, j \in 1..Len(withPoints.FlightPoints) :
          i < j => withPoints.FlightPoints[i] # withPoints.FlightPoints[j]

\* C8: the entry makeAircraftWithPoints returns for an aircraft of a batch
\* contains exactly the rows of that aircraft that are in the table with
\* synchronised = false at the time of the query: no acknowledged row, and
\* every unacknowledged one.
C8_BatchIsUnsynchronised ==
    [][\A p \in Passes :
        /\ (pass[p].pc = "queryPrimary" /\ pass'[p].pc \in {"secondary", "inflight"})
           => ExactlyUnsynchronised(pass'[p].aircraftArray[1], pass[p].primary)
        /\ \A i \in 1..Len(pass[p].secondary) :
              (/\ pass[p].pc = "secondary"
               /\ pass[p].secondary[i].pc = "query"
               /\ pass'[p].pc \in {"secondary", "inflight"}
               /\ pass'[p].secondary[i].pc = "done")
              => ExactlyUnsynchronised(pass'[p].secondary[i].withPoints,
                                       pass[p].secondary[i].icao)]_vars

\* A batch in flight has points of an aircraft that also has acknowledged rows.
C8_Witness ==
    \E p \in Passes :
        /\ pass[p].pc = "inflight"
        /\ \E i \in 1..Len(pass[p].aircraftArray) :
              /\ Len(pass[p].aircraftArray[i].FlightPoints) > 0
              /\ \E r \in FlightPoints : /\ r.AircraftIcao = pass[p].aircraftArray[i].icao
                                         /\ r.synchronised

\* C9: a row of the table becomes synchronised only in the step that applies
\* receipts, and only if one of the receipts has its AircraftIcao and its
\* flightPointHash; no step removes a row or makes a synchronised row
\* unsynchronised.
C9_OnlyMatchingReceipt ==
    [][\A r \in FlightPoints :
        \E q \in FlightPoints' :
            /\ q.flightPointHash = r.flightPointHash
            /\ q.AircraftIcao = r.AircraftIcao
            /\ r.synchronised => q.synchronised
            /\ (~r.synchronised /\ q.synchronised) =>
                  \E p \in Passes :
                      /\ pass[p].pc = "receipts"
                      /\ pass'[p].pc = "applied"
                      /\ \E i \in 1..Len(pass[p].receipts) :
                            \E j \in 1..Len(pass[p].receipts[i]) :
                                /\ pass[p].receipts[i][j].AircraftIcao = r.AircraftIcao
                                /\ pass[p].receipts[i][j].flightPointHash = r.flightPointHash]_vars

\* Of two points of one aircraft, one has been acknowledged and one is pending.
C9_Witness ==
    \E r, q \in FlightPoints :
        /\ r.AircraftIcao = q.AircraftIcao
        /\ r.synchronised
        /\ ~q.synchronised

\* C10: applying the same receipts array a second time leaves the FlightPoint
\* table exactly as the first application left it, for every table and array.
C10_ReceiptsIdempotent ==
    [][(applications >= 1 /\ applications' = applications + 1)
       => FlightPoints' = FlightPoints]_vars

\* An array with a receipt for a row of the table has been applied twice.
C10_Witness ==
    /\ applications = 2
    /\ \E r \in FlightPoints : \E i \in 1..Len(receiptsArray) :
          /\ receiptsArray[i].AircraftIcao = r.AircraftIcao
          /\ receiptsArray[i].flightPointHash = r.flightPointHash

\* The row is referred to by some receipt of the array.
Acknowledged(r, receipts) ==
    \E i \in 1..Len(receipts) :
        /\ receipts[i].AircraftIcao = r.AircraftIcao
        /\ receipts[i].flightPointHash = r.flightPointHash

Pending(table) == {r \in table : ~r.synchronised}

\* C11: updateFlightPointReceipts sets synchronised on exactly the rows whose
\* (AircraftIcao, flightPointHash) is that of some receipt and leaves every
\* other row as it is; a receipt that matches no row changes nothing; so of n
\* pending rows, k of them acknowledged, n - k stay pending.
C11_ExactlyAcknowledged ==
    [][applications' = applications + 1 =>
        /\ Cardinality(FlightPoints') = Cardinality(FlightPoints)
        /\ \A r \in FlightPoints :
              IF Acknowledged(r, receiptsArray)
              THEN [r EXCEPT !.synchronised = TRUE] \in FlightPoints'
              ELSE r \in FlightPoints'
        /\ Cardinality(Pending(FlightPoints')) =
              Cardinality(Pending(FlightPoints))
              - Cardinality({r \in Pending(FlightPoints) : Acknowledged(r, receiptsArray)})]_vars

\* An array has been applied that acknowledges one row, leaves another row
\* pending and holds a receipt that matches no row.
C11_Witness ==
    /\ applications = 1
    /\ \E r \in FlightPoints : r.synchronised /\ Acknowledged(r, receiptsArray)
    /\ \E r \in FlightPoints : ~r.synchronised
    /\ \E i \in 1..Len(receiptsArray) :
          \A r \in FlightPoints : ~Acknowledged(r, <<receiptsArray[i]>>)

\* C12: saving a point whose flightPointHash is already in the table changes
\* nothing: no second row, and the existing row keeps its synchronised flag, so
\* an acknowledged point that is ingested again does not become pending again.
C12_RegisterExistingIsNoOp ==
    [][(/\ registered' # << >>
        /\ \E r \in FlightPoints :
              r.flightPointHash =
                  flightPointHash(registered'[1][1], flightPointFromBinary(registered'[1][2], LiveAircraftObject)))
       => FlightPoints' = FlightPoints]_vars

\* A point has been saved again whose row is acknowledged.
C12_Witness ==
    /\ registered # << >>
    /\ \E r \in FlightPoints :
          /\ r.flightPointHash =
                flightPointHash(registered[1][1], flightPointFromBinary(registered[1][2], LiveAircraftObject))
          /\ r.synchronised

\* C13: getUnsynchronisedPointsFor(icao) returns the aircraft with all and only
\* its rows having synchronised = false, each once, by ascending timestamp; when
\* it has none the result is the aircraft with an empty list.
C13_PendingByTimestamp ==
    queried # << >> =>
        LET points == queried[1].FlightPoints
            pending == {r \in FlightPoints : r.AircraftIcao = queried[1].icao /\ ~r.synchronised}
        IN /\ queried[1].icao \in Icaos
           /\ {points[i] : i \in 1..Len(points)} = pending
           /\ Len(points) = Cardinality(pending)
           /\ \A i, j \in 1..Len(points) : i < j => points[i].timestamp < points[j].timestamp

\* A query has returned two pending points of one aircraft.
C13_Witness ==
    /\ queried # << >>
    /\ Len(queried[1].FlightPoints) >= 2

\* A query has returned an aircraft that has rows, none of them pending.
C13_WitnessEmpty ==
    /\ queried # << >>
    /\ Len(queried[1].FlightPoints) = 0
    /\ \E r \in FlightPoints : r.AircraftIcao = queried[1].icao

\* The points of each aircraft the tracker has obtained: those handed to
\* updateAircraft and those a running pass was given to save first.
Obtained ==
    handed \cup UNION {{<<pass[p].primary, pass[p].built[i].timestamp>> :
                            i \in 1..Len(pass[p].built)} : p \in Running}

\* C14: within one aircraft points are registered in timestamp order: no point
\* is in the table while a point of the same aircraft with a smaller timestamp,
\* which the tracker has already obtained, is not.
C14_RegisteredInTimestampOrder ==
    isSlaveMode =>
        \A r \in FlightPoints : \A h \in Obtained :
            (h[1] = r.AircraftIcao /\ h[2] < r.timestamp) => Persisted(h[1], h[2])

\* The samples of the documents args names, each with its absolute timestamp
\* (own base + offset): <<absolute timestamp, TraceObject>>.
InputSamples(args) ==
    {<<files[id[1]][1].timestamp + files[id[1]][1].offsets[id[2]], id>> :
        id \in {q \in SampleIds : /\ \E i \in 1..Len(args) : args[i] = q[1]
                                  /\ files[q[1]] # << >>
                                  /\ q[2] <= Len(files[q[1]][1].offsets)}}

\* Decoding a trace back to absolute timestamps (timestamp + offset): the
\* sequence of its <<absolute timestamp, TraceObject>>.
Decoded(trace, h) ==
    [i \in 1..Len(trace.trace) |-> <<trace.timestamp[1] + h[trace.trace[i]], trace.trace[i]>>]

Range(seq) == {seq[i] : i \in 1..Len(seq)}

MergedABC == mergePc = "merged" /\ mergeArgs = <<1, 2, 3>>

\* C15: for inputs with a non-null first trace, the merged trace decoded back
\* to absolute timestamps is strictly ascending, without duplicate timestamp,
\* and its timestamps are those of all input samples, whatever the number of
\* digits of the timestamps.
C15_StrictlyAscendingUnion ==
    MergedABC =>
        LET d == Decoded(mergedTrace[1], heap)
        IN /\ \A i, j \in 1..Len(d) : i < j => d[i][1] < d[j][1]
           /\ {d[i][1] : i \in 1..Len(d)} = {x[1] : x \in InputSamples(mergeArgs)}

\* C17: the base timestamp of the merged trace is the smallest absolute
\* timestamp of all input samples, its first sample has offset 0 and every
\* sample's offset is its absolute timestamp minus that base.
C17_BaseIsSmallest ==
    (MergedABC /\ InputSamples(mergeArgs) # {}) =>
        LET trace == mergedTrace[1]
            base == CHOOSE b \in {x[1] : x \in InputSamples(mergeArgs)} :
                        \A x \in InputSamples(mergeArgs) : b <= x[1]
        IN /\ trace.timestamp = <<base>>
           /\ heap[trace.trace[1]] = 0
           /\ \A i \in 1..Len(trace.trace) :
                 \E x \in InputSamples(mergeArgs) :
                     x[2] = trace.trace[i] /\ heap[trace.trace[i]] = x[1] - base

\* TraceObject a comes before b in argument order, then in sample order.
Before(a, b) == a[1] < b[1] \/ (a[1] = b[1] /\ a[2] <= b[2])

\* C16: first writer wins: of the input samples with one absolute timestamp the
\* merged trace holds the one that is first in argument order, then in sample
\* order, and none of the others.
C16_FirstWriterWins ==
    MergedABC =>
        \A x \in InputSamples(mergeArgs) :
            LET same == {y \in InputSamples(mergeArgs) : y[1] = x[1]}
                first == CHOOSE y \in same : \A z \in same : Before(y[2], z[2])
            IN Range(mergedTrace[1].trace) \cap {y[2] : y \in same} = {first[2]}

\* Merged: a timestamp that two samples of one trace have and a timestamp
\* that samples of two traces have.
C16_Witness ==
    /\ MergedABC
    /\ \E x, y \in InputSamples(mergeArgs) : x[1] = y[1] /\ x[2][1] = y[2][1] /\ x[2][2] # y[2][2]
    /\ \E x, y \in InputSamples(mergeArgs) : x[1] = y[1] /\ x[2][1] # y[2][1]

\* The identity fields of a trace.
Identity(trace) ==
    <<trace.icao, trace.r, trace.t, trace.desc, trace.ownOp, trace.year>>

FirstGiven(args) ==
    CHOOSE i \in 1..Len(args) :
        files[args[i]] # << >> /\ \A j \in 1..(i - 1) : files[args[j]] = << >>

\* C18 as stated: whenever one of the arguments is a trace, the merged trace has
\* the identity fields of the first argument that is not null, also when the
\* first argument is null.
C18_IdentityOfFirstNonNull ==
    (/\ mergePc \in {"merged", "thrown"}
     /\ \E i \in 1..Len(mergeArgs) : files[mergeArgs[i]] # << >>)
    => /\ mergePc = "merged"
       /\ Identity(mergedTrace[1]) =
              Identity(aircraftTrace(files, mergeArgs[FirstGiven(mergeArgs)])[1])

\* C18 as amended: mergeAllTraces throws exactly when its first argument is
\* null; otherwise the merged trace has the identity fields of the first argument.
C18_IdentityOfFirstArgument ==
    /\ mergePc = "thrown" <=> (mergeArgs # << >> /\ files[mergeArgs[1]] = << >>)
    /\ mergePc \in {"merged", "nested"} =>
          Identity(mergedTrace[1]) = Identity(aircraftTrace(files, mergeArgs[1])[1])

\* Merged: two traces with different identity fields, the first one without samples.
C18_Witness ==
    /\ MergedABC
    /\ files[2] # << >>
    /\ Len(files[1][1].offsets) = 0
    /\ Len(files[2][1].offsets) > 0

\* mergeAllTraces on fresh objects of the documents args names.
FreshMerge(args) ==
    mergeAllTraces(parsedHeap(files), [i \in 1..Len(args) |-> aircraftTrace(files, args[i])])

\* C19: merging a trace with itself, mergeAllTraces(A, A), yields the ordered
\* sequence of points (absolute timestamp and sample) of A alone.
C19_MergeIdempotent ==
    (mergePc = "merged" /\ mergeArgs = <<1, 1>>) =>
        Decoded(mergedTrace[1], heap) = Decoded(FreshMerge(<<1>>).trace[1], FreshMerge(<<1>>).heap)

\* C20: merging (A, B) and then the result with C yields the same set of points
\* (absolute timestamp and sample) as merging (A, B, C) in one call.
C20_MergeAssociative ==
    mergePc = "nested" =>
        Range(Decoded(mergedTrace[1], heap)) =
            Range(Decoded(FreshMerge(<<1, 2, 3>>).trace[1], FreshMerge(<<1, 2, 3>>).heap))

\* Merged in two calls: A, B and C have samples, a sample of C has the timestamp
\* of a sample of A, and the first merge moved the base of B's samples.
C20_Witness ==
    /\ mergePc = "nested"
    /\ \A k \in TraceIdx : files[k] # << >> /\ Len(files[k][1].offsets) > 0
    /\ files[1][1].timestamp # files[2][1].timestamp
    /\ \E x, y \in InputSamples(<<1, 2, 3>>) : x[1] = y[1] /\ x[2][1] = 1 /\ y[2][1] = 3

\* ------------------------------------------------------------------------
\* C21..C30
\* ------------------------------------------------------------------------

\* decodeBinaryUpdate has returned for the frame at hand.
Returned == frame # << >>

C22_NullDecodeSkipped ==
    (Returned /\ decodedBinaryUpdate = "null" /\ framePc = "idle") =>
        (handlerPromise = "resolved" /\ ~unhandledRejection)

\* The raw sample of each feed and the point built of it.
TraceSample == rawTrace[1].trace[1]

TracePoint == flightPoints["trace"][1]

BinarySample == rawBinary[1].aircraftObject

BinaryPoint == flightPoints["binary"][1]

\* C23: in both normalisers an absent altitude maps to null (never to 0), the
\* ground sentinel maps to altitude 0 with isOnGround, and isOnGround is set only
\* for the ground sentinel: every point with isOnGround has altitude 0.
C23_AltitudeNullOrGround ==
    /\ flightPoints["trace"] # << >> =>
        /\ TraceSample[3] = null => TracePoint.altitude = Null
        /\ TraceSample[3] = ground => (TracePoint.altitude = <<0>> /\ TracePoint.isOnGround)
        /\ TracePoint.isOnGround => (TraceSample[3] = ground /\ TracePoint.altitude = <<0>>)
    /\ flightPoints["binary"] # << >> =>
        /\ BinarySample.alt_baro = undefined => BinaryPoint.altitude = Null
        /\ BinarySample.alt_baro = ground => (BinaryPoint.altitude = <<0>> /\ BinaryPoint.isOnGround)
        /\ BinaryPoint.isOnGround => (BinarySample.alt_baro = ground /\ BinaryPoint.altitude = <<0>>)

\* C23: a trace sample without altitude and a binary sample on the ground have
\* both been normalised.
C23_Witness ==
    /\ flightPoints["trace"] # << >> /\ TraceSample[3] = null /\ TracePoint.altitude = Null
    /\ flightPoints["binary"] # << >> /\ BinarySample.alt_baro = ground /\ BinaryPoint.isOnGround

\* C24: a raw sample without a position fix is normalised to a point whose
\* latitude and longitude are null, its other telemetry kept, and when the point
\* is hashed the position component of the hash input is "0".
C24_NoFixIsNull ==
    /\ (flightPoints["trace"] # << >> /\ TraceSample[1] = null /\ TraceSample[2] = null) =>
        /\ TracePoint.latitude = Null /\ TracePoint.longitude = Null
        /\ TracePoint.groundSpeed = copied(TraceSample[4])
        /\ hashed["trace"] # << >> => positionForHash(TracePoint) = "0"
    /\ (flightPoints["binary"] # << >> /\ BinarySample.lat = undefined
            /\ BinarySample.lon = undefined) =>
        /\ BinaryPoint.latitude = Null /\ BinaryPoint.longitude = Null
        /\ BinaryPoint.groundSpeed = copied(BinarySample.gs)
        /\ hashed["binary"] # << >> => positionForHash(BinaryPoint) = "0"

\* The four components of a point the hash is meant to be taken of, besides the ICAO.
Components(fp) == <<fp.timestamp, fp.latitude, fp.longitude, fp.altitude>>

\* C25: two points of the same aircraft that agree on timestamp, position and
\* altitude have the same flightPointHash, whatever their other fields and
\* whichever feed they come from.
C25_HashOfFourComponents ==
    (/\ hashed["trace"] # << >>
     /\ hashed["binary"] # << >>
     /\ hashed["trace"][1].AircraftIcao = hashed["binary"][1].AircraftIcao
     /\ Components(TracePoint) = Components(BinaryPoint))
        => hashed["trace"][1].flightPointHash = hashed["binary"][1].flightPointHash

\* C25: a point of either feed, for the same aircraft, equal in the four
\* components and different in ground speed, vertical rate and data source,
\* have been given the same hash.
C25_Witness ==
    /\ hashed["trace"] # << >>
    /\ hashed["binary"] # << >>
    /\ hashed["trace"][1].AircraftIcao = hashed["binary"][1].AircraftIcao
    /\ Components(TracePoint) = Components(BinaryPoint)
    /\ TracePoint.latitude # NaN
    /\ TracePoint.groundSpeed # BinaryPoint.groundSpeed
    /\ TracePoint.verticalRate # BinaryPoint.verticalRate
    /\ TracePoint.dataSource # BinaryPoint.dataSource
    /\ hashed["trace"][1].flightPointHash = hashed["binary"][1].flightPointHash

\* C26 (as stated): there is a threshold that the counter of no aircraft reaches
\* while the aircraft keeps its entries: the call of missingUpdate that brings
\* the counter to the threshold deletes them, the counter included.
C26_RemovedAtThreshold ==
    \E threshold \in 1..MaxMissed : \A icao \in Icaos : missedUpdates[icao] < threshold

\* C27 (as stated): the master connection and the database are closed only in
\* states where no flush is in flight: no step of shutdownSlave is taken while
\* the gate is closed and an update pass is running.
C27_ClosedOnlyWhenIdle ==
    [][shutdownPc' # shutdownPc =>
        ~(awaitingUpdateResponse /\ \E p \in Passes : pass[p].pc # "idle")]_vars

\* C28: createAircraft is find-or-create by ICAO. The table never holds two rows
\* of one ICAO and no row of it is ever changed or deleted; a call returns, with
\* created = true and the row it has built and saved when it is the first call
\* for its ICAO, and with created = false and the row that was there before,
\* left as it was, when it is a later one.
C28_FindOrCreate ==
    [][/\ \A row1, row2 \in Aircraft' : row1.icao = row2.icao => row1 = row2
       /\ \A row \in Aircraft : row \in Aircraft'
       /\ (creating # << >> /\ creating' = << >>) =>
            LET aircraftState == creating[1].aircraftState
                result == createResult'[1]
            IN  /\ result.kind = "returned"
                /\ result.created = (aircraftState.icao \notin createdBefore)
                /\ result.model.icao = aircraftState.icao
                /\ result.model \in Aircraft'
                /\ result.created => /\ result.model = buildAircraftModel(aircraftState)
                                      /\ result.model \notin Aircraft
                /\ ~result.created => result.model \in Aircraft]_vars

\* C28: a later call for an ICAO, made with another flight name than the row
\* holds, has returned the row with created = false, and a row of the other
\* ICAO is in the table too.
C28_Witness ==
    /\ createResult # << >>
    /\ createResult[1].kind = "returned"
    /\ ~createResult[1].created
    /\ createResult[1].model.flightName # createResult[1].aircraftState.flightName
    /\ createResult[1].model \in Aircraft
    /\ Cardinality(Aircraft) = 2

RECURSIVE Concatenated(_)
Concatenated(partials) ==
    IF partials = << >> THEN << >>
    ELSE Head(partials).points \o Concatenated(Tail(partials))

\* C29: segmentation coverage: every PartialFlight emitted for a canonical
\* sequence holds at least one point, and the point sequences of the partials,
\* concatenated in order, are the input: no point omitted, duplicated or
\* reordered.
C29_Coverage ==
    partialFlights # << >> =>
        /\ \A k \in 1..Len(partialFlights[1]) : partialFlights[1][k].points # << >>
        /\ Concatenated(partialFlights[1]) = segmenterInput

\* C29: a sequence of three points has been cut into two partials.
C29_Witness ==
    /\ partialFlights # << >>
    /\ Len(segmenterInput) = 3
    /\ Len(partialFlights[1]) = 2

\* isCompleteFlight of a partial is what its four boundary flags give.
FlagsConsistent(partial) ==
    partial.isCompleteFlight =
        (/\ partial.startedWithTakeoff
         /\ partial.endedWithLanding
         /\ ~partial.incompletePast
         /\ ~partial.incompleteFuture)

\* C30: for every emitted partial, and for every partial listed in the
\* breakdowns of the reference traces, isCompleteFlight equals
\* startedWithTakeoff and endedWithLanding and not incompletePast and not
\* incompleteFuture.
C30_FlagConsistency ==
    /\ partialFlights # << >> =>
            \A k \in 1..Len(partialFlights[1]) : FlagsConsistent(partialFlights[1][k])
    /\ breakdown # << >> =>
            \A k \in 1..Len(breakdown[1].partials) : FlagsConsistent(breakdown[1].partials[k])

\* C30: the breakdown read lists complete flights and a flight that is not, and
\* the partials emitted hold a complete flight with a point in the air.
C30_Witness ==
    /\ breakdown # << >>
    /\ \E k \in 1..Len(breakdown[1].partials) : breakdown[1].partials[k].isCompleteFlight
    /\ \E k \in 1..Len(breakdown[1].partials) : ~breakdown[1].partials[k].isCompleteFlight
    /\ partialFlights # << >>
    /\ \E k \in 1..Len(partialFlights[1]) :
            /\ partialFlights[1][k].isCompleteFlight
            /\ \E i \in 1..Len(partialFlights[1][k].points) :
                    ~partialFlights[1][k].points[i].isOnGround

\* Of the start of a partial exactly one of startedWithTakeoff and incompletePast
\* is true, and of its end exactly one of endedWithLanding and incompleteFuture.
ExactlyOne(partial) ==
    /\ partial.startedWithTakeoff # partial.incompletePast
    /\ partial.endedWithLanding # partial.incompleteFuture

\* C31: for every emitted partial, and for every partial listed in the
\* breakdowns of the reference traces, exactly one of startedWithTakeoff and
\* incompletePast is true and exactly one of endedWithLanding and
\* incompleteFuture is true, whatever boundaries delimit the partial.
C31_ExactlyOneSignal ==
    /\ partialFlights # << >> =>
            \A k \in 1..Len(partialFlights[1]) : ExactlyOne(partialFlights[1][k])
    /\ breakdown # << >> =>
            \A k \in 1..Len(breakdown[1].partials) : ExactlyOne(breakdown[1].partials[k])

\* C31: the breakdown of aircraft_7c4ee8_t3 has been read, and three partials
\* have been emitted: the first closed by a hard or timeout boundary, the last
\* opened by one, and a ground point opens the second.
C31_Witness ==
    /\ breakdown # << >>
    /\ breakdown[1].name = "aircraft_7c4ee8_t3"
    /\ partialFlights # << >>
    /\ Len(partialFlights[1]) = 3
    /\ partialFlights[1][1].incompleteFuture
    /\ partialFlights[1][2].points[1].isOnGround
    /\ partialFlights[1][3].incompletePast

\* C32: the first emitted partial has startedWithTakeoff if the first point of
\* the sequence is a ground point and incompletePast otherwise; the last has
\* endedWithLanding if the last point of the sequence is a ground point and
\* incompleteFuture otherwise. The breakdown of the reference trace
\* aircraft_7c4ee8_t1 lists two partials, the first incompletePast and ended
\* with landing, the second started with takeoff and incompleteFuture.
C32_FirstAndLastPoint ==
    /\ (partialFlights # << >> /\ segmenterInput # << >>) =>
            LET first == partialFlights[1][1]
                last == partialFlights[1][Len(partialFlights[1])]
            IN  /\ IF segmenterInput[1].isOnGround
                   THEN first.startedWithTakeoff
                   ELSE first.incompletePast
                /\ IF segmenterInput[Len(segmenterInput)].isOnGround
                   THEN last.endedWithLanding
                   ELSE last.incompleteFuture
    /\ (breakdown # << >> /\ breakdown[1].name = "aircraft_7c4ee8_t1") =>
            /\ Len(breakdown[1].partials) = 2
            /\ breakdown[1].partials[1].incompletePast
            /\ breakdown[1].partials[1].endedWithLanding
            /\ breakdown[1].partials[2].startedWithTakeoff
            /\ breakdown[1].partials[2].incompleteFuture

\* C32: a sequence that starts and ends in the air has been cut at a landing
\* into the partials that the breakdown of aircraft_7c4ee8_t1 lists, flag by flag.
C32_Witness ==
    /\ breakdown # << >>
    /\ breakdown[1].name = "aircraft_7c4ee8_t1"
    /\ partialFlights # << >>
    /\ segmenterInput # << >>
    /\ ~segmenterInput[1].isOnGround
    /\ ~segmenterInput[Len(segmenterInput)].isOnGround
    /\ Len(partialFlights[1]) = 2
    /\ \A k \in 1..2 :
            /\ partialFlights[1][k].startedWithTakeoff = breakdown[1].partials[k].startedWithTakeoff
            /\ partialFlights[1][k].endedWithLanding = breakdown[1].partials[k].endedWithLanding
            /\ partialFlights[1][k].incompletePast = breakdown[1].partials[k].incompletePast
            /\ partialFlights[1][k].incompleteFuture = breakdown[1].partials[k].incompleteFuture
            /\ partialFlights[1][k].isCompleteFlight = breakdown[1].partials[k].isCompleteFlight

\* The segmenter was given a single ground point and then, after a gap above
\* the threshold, a point in the air.
GroundGapAirborne(threshold) ==
    /\ partialFlights # << >>
    /\ Len(segmenterInput) = 2
    /\ segmenterInput[1].isOnGround
    /\ ~segmenterInput[2].isOnGround
    /\ segmenterInput[2].timestamp - segmenterInput[1].timestamp > threshold

\* Two partials were emitted, the first not ended with landing and incomplete
\* in the future, the second not started with takeoff and incomplete in the past.
TwoIncompletePartials ==
    /\ Len(partialFlights[1]) = 2
    /\ ~partialFlights[1][1].endedWithLanding
    /\ partialFlights[1][1].incompleteFuture
    /\ ~partialFlights[1][2].startedWithTakeoff
    /\ partialFlights[1][2].incompletePast

C34_QueueEmptied ==
    [][\A p \in Passes :
        /\ (/\ pass[p].pc = "saveQueued"
            /\ pass'[p].pc = "queryPrimary"
            /\ savedUpdates[pass[p].primary] = pass[p].built)
                => savedUpdates'[pass[p].primary] = << >>
        /\ \A i \in 1..Len(pass[p].secondary) :
            (/\ pass[p].pc = "secondary"
             /\ pass[p].secondary[i].pc = "save"
             /\ pass'[p].secondary[i].pc = "query"
             /\ savedUpdates[pass[p].secondary[i].icao] = pass[p].secondary[i].built)
                => savedUpdates'[pass[p].secondary[i].icao] = << >>]_vars

\* C35 (as stated): an aircraft that is not yet set up is never a secondary
\* aircraft of an update pass: every aircraft whose queued points a pass
\* started for another aircraft persists and submits has isSetup true.
C35_SecondaryIsSetUp ==
    \A p \in Passes : \A i \in 1..Len(pass[p].secondary) :
        isSetup[pass[p].secondary[i].icao]

\* C36 (as stated): an aircraft is marked inactive only when it is active, the
\* decoded update at hand has no object for it and it has timed out; and once
\* such a timeout is handled, in slave mode when the report to the master has
\* settled, the aircraft is inactive, no rejection has been raised and the
\* aircraft is still tracked.
C36_TimeoutInactivates ==
    [][\A icao \in Icaos :
        /\ (isActiveNow[icao] /\ ~isActiveNow'[icao]) =>
                /\ decodedBinaryUpdate = "update"
                /\ icao \notin frame[1].present
                /\ isTimeout(icao)
        /\ (chain[icao] \in {"none", "reporting"} /\ chain'[icao] \notin {"none", "reporting", "pass"}
             /\ framePc = "distributing" /\ icao \notin frame[1].present
             /\ isActiveNow[icao] /\ isTimeout(icao)) =>
                /\ ~isActiveNow'[icao]
                /\ ~unhandledRejection'
                /\ icao \in aircraft']_vars

\* C37 (as stated): in non-slave mode the gate is released as well: when every
\* update pass has returned, awaitingUpdateResponse is false.
C37_GateReleasedWithoutMaster ==
    (~isSlaveMode /\ \A p \in Passes : pass[p].pc = "idle") => ~awaitingUpdateResponse


\* C38: mergeAllTraces leaves its inputs unchanged: after a call that returned,
\* every sample of every input trace holds the offset it held before the call
\* (the base timestamps of the inputs are never written).
C38_InputsUnchanged ==
    [][(mergePc = "read" /\ mergePc' = "merged") => heap' = heap]_vars


\* C39: two hashed points that differ in the aircraft ICAO or in one of
\* timestamp, latitude, longitude and altitude (a missing one included) have
\* different hash inputs, so neither is rejected as a duplicate of the other.
C39_HashInputDistinguishes ==
    (/\ hashed["trace"] # << >>
     /\ hashed["binary"] # << >>
     /\ \/ hashed["trace"][1].AircraftIcao # hashed["binary"][1].AircraftIcao
        \/ Components(TracePoint) # Components(BinaryPoint))
        => hashed["trace"][1].flightPointHash # hashed["binary"][1].flightPointHash


\* C40: a point is marked synchronised only when a receipt confirms it: a call
\* of updateFlightPointReceipts leaves every unsynchronised row as it is unless
\* some receipt of the array names the row and has synchronised = true, so a
\* row named only by receipts with synchronised = false stays pending.
C40_OnlyConfirmedReceiptsSynchronise ==
    [][applications' = applications + 1 =>
        \A r \in FlightPoints :
            (/\ ~r.synchronised
             /\ ~\E i \in 1..Len(receiptsArray) :
                    /\ receiptsArray[i].AircraftIcao = r.AircraftIcao
                    /\ receiptsArray[i].flightPointHash = r.flightPointHash
                    /\ receiptsArray[i].synchronised)
                => r \in FlightPoints']_vars

====
